---- MODULE Spec2Model ----
(***************************************************************************)
(* Locator resolution of the pattern-based object repository:              *)
(* DynamicLocatorManager (pattern/template lookup, parameter merging,      *)
(* nested parameter resolution, placeholder substitution, locator cache)   *)
(* and XPathRepositoryManager (per-name repository map).                   *)
(*                                                                         *)
(* A JavaScript string is a sequence of one-character strings; a           *)
(* Record<string,string> is the sequence of its <<key, value>> entries in  *)
(* insertion order (the order Object.entries and the object spread use);   *)
(* a dotted path is kept as the sequence of its parts, which is what       *)
(* path.split('.') yields.  Parameter keys are identifiers (letters), so   *)
(* the regular expression built from a key matches the placeholder text    *)
(* literally.                                                              *)
(***************************************************************************)
EXTENDS Integers, Sequences, FiniteSets, TLC

(***************************************************************************)
(* Strings                                                                 *)
(***************************************************************************)
StartsWithAt(s, i, w) ==
    /\ i + Len(w) - 1 <= Len(s)
    /\ \A j \in 1..Len(w) : s[i + j - 1] = w[j]

\* `{${key}}`
Placeholder(key) == <<"{">> \o key \o <<"}">>

\* String.prototype.replace with a string replacement: the replacement text is
\* expanded per match ($$ -> $, $& -> the match, $` -> the text before the
\* match, $' -> the text after it; the expression has no capture groups, so
\* any other $ sequence is literal).  k is the position in value, the match
\* is the n characters of s starting at i.
RECURSIVE GetSubstitution(_, _, _, _, _)
GetSubstitution(value, k, s, i, n) ==
    IF k > Len(value) THEN <<>>
    ELSE IF value[k] = "$" /\ k < Len(value) /\ value[k + 1] = "$"
        THEN <<"$">> \o GetSubstitution(value, k + 2, s, i, n)
    ELSE IF value[k] = "$" /\ k < Len(value) /\ value[k + 1] = "&"
        THEN SubSeq(s, i, i + n - 1) \o GetSubstitution(value, k + 2, s, i, n)
    ELSE IF value[k] = "$" /\ k < Len(value) /\ value[k + 1] = "`"
        THEN SubSeq(s, 1, i - 1) \o GetSubstitution(value, k + 2, s, i, n)
    ELSE IF value[k] = "$" /\ k < Len(value) /\ value[k + 1] = "'"
        THEN SubSeq(s, i + n, Len(s)) \o GetSubstitution(value, k + 2, s, i, n)
    ELSE <<value[k]>> \o GetSubstitution(value, k + 1, s, i, n)

\* result.replace(new RegExp(<placeholder, braces escaped>, 'g'), value):
\* every non-overlapping match of w in s, scanned from position i, is replaced.
RECURSIVE ReplaceAllFrom(_, _, _, _)
ReplaceAllFrom(s, i, w, value) ==
    IF i > Len(s) THEN <<>>
    ELSE IF StartsWithAt(s, i, w)
        THEN GetSubstitution(value, 1, s, i, Len(w))
                 \o ReplaceAllFrom(s, i + Len(w), w, value)
    ELSE <<s[i]>> \o ReplaceAllFrom(s, i + 1, w, value)

\* result.match(/\{[^}]+\}/g) is not null
HasUnreplaced(s) ==
    \E i \in 1..Len(s) : \E j \in (i + 2)..Len(s) :
        /\ s[i] = "{"
        /\ s[j] = "}"
        /\ \A k \in (i + 1)..(j - 1) : s[k] # "}"

(***************************************************************************)
(* Record<string, string>                                                  *)
(***************************************************************************)
Keys(params) == {params[i][1] : i \in 1..Len(params)}

HasKey(params, key) == key \in Keys(params)

\* params[key]; only used where the key is present
Get(params, key) == params[CHOOSE i \in 1..Len(params) : params[i][1] = key][2]

\* params[key] = value: an existing key keeps its position, a new one is appended
Put(params, key, value) ==
    IF HasKey(params, key)
    THEN [i \in 1..Len(params) |->
             IF params[i][1] = key THEN <<key, value>> ELSE params[i]]
    ELSE Append(params, <<key, value>>)

RECURSIVE SpreadInto(_, _)
SpreadInto(a, b) ==
    IF b = <<>> THEN a
    ELSE SpreadInto(Put(a, b[1][1], b[1][2]), Tail(b))

\* a spread in which the keys of a keep their values
SpreadFirstWins(a, b) ==
    SpreadInto(a, SelectSeq(b, LAMBDA e : ~HasKey(a, e[1])))

\* { ...a, ...b }
Spread(a, b) == SpreadInto(a, b)

(***************************************************************************)
(* DynamicLocatorManager: private helpers                                  *)
(***************************************************************************)
\* for (const [key, value] of Object.entries(parameters)) result = result.replace(...)
RECURSIVE ReplaceEach(_, _)
ReplaceEach(result, parameters) ==
    IF parameters = <<>> THEN result
    ELSE ReplaceEach(
             ReplaceAllFrom(result, 1, Placeholder(parameters[1][1]), parameters[1][2]),
             Tail(parameters))

\* s without the text of its placeholders
RECURSIVE StripUnreplaced(_)
StripUnreplaced(s) ==
    IF s = <<>> THEN <<>>
    ELSE IF s[1] = "{" /\ \E j \in 3..Len(s) :
                              s[j] = "}" /\ \A k \in 2..(j - 1) : s[k] # "}"
        THEN LET j == CHOOSE j \in 3..Len(s) :
                          s[j] = "}" /\ \A k \in 2..(j - 1) : s[k] # "}"
             IN  StripUnreplaced(SubSeq(s, j + 1, Len(s)))
    ELSE <<s[1]>> \o StripUnreplaced(Tail(s))

\* replaceParameters that drops the placeholders it could not replace
replaceParametersStripping(pattern, parameters) ==
    StripUnreplaced(ReplaceEach(pattern, parameters))

\* replaceParameters, lines 481-496; the unreplaced placeholders are only
\* reported with console.warn
replaceParameters(pattern, parameters) == ReplaceEach(pattern, parameters)

\* resolveNestedParameters, lines 498-519
resolveNestedParameters(templateParams, runtimeParams) ==
    [i \in 1..Len(templateParams) |->
        LET key   == templateParams[i][1]
            value == templateParams[i][2]
        IN  IF Len(value) >= 1 /\ value[1] = "{" /\ value[Len(value)] = "}"
            THEN LET nestedKey == SubSeq(value, 2, Len(value) - 1)
                 IN  IF HasKey(runtimeParams, nestedKey)
                        /\ Get(runtimeParams, nestedKey) # <<>>
                     THEN <<key, Get(runtimeParams, nestedKey)>>
                     ELSE <<key, value>>
            ELSE <<key, value>>]

(***************************************************************************)
(* JSON values of a parsed repository file                                 *)
(***************************************************************************)
NoKids == <<>>

Undef == [t |-> "undef", s |-> <<>>, n |-> 0, kids |-> NoKids]

\* a JSON string
Str(s) == [t |-> "str", s |-> s, n |-> 0, kids |-> NoKids]

Num(n) == [t |-> "num", s |-> <<>>, n |-> n, kids |-> NoKids]

\* a JSON object with named members
Obj(kids) == [t |-> "obj", s |-> <<>>, n |-> 0, kids |-> kids]

\* a JSON object holding string parameters, entries in file order
Rec(entries) == [t |-> "rec", s |-> entries, n |-> 0, kids |-> NoKids]

\* !v
Falsy(v) ==
    \/ v.t = "undef"
    \/ v.t = "str" /\ v.s = <<>>
    \/ v.t = "num" /\ v.n = 0

\* v[name], for v other than undefined
Prop(v, name) ==
    CASE v.t = "obj" -> IF name \in DOMAIN v.kids THEN v.kids[name] ELSE Undef
      [] v.t = "rec" -> IF HasKey(v.s, <<name>>) THEN Str(Get(v.s, <<name>>)) ELSE Undef
      [] v.t = "str" -> IF name = "length" THEN Num(Len(v.s)) ELSE Undef
      [] OTHER       -> Undef

\* the entries an object spread { ...v } contributes: none for undefined
SpreadEntries(v) == IF v.t = "rec" THEN v.s ELSE <<>>

\* for (const part of parts) { current = current[part]; if (!current) throw }
\* Undef stands for the throw.
RECURSIVE Walk(_, _)
Walk(current, parts) ==
    IF parts = <<>> THEN current
    ELSE LET next == Prop(current, Head(parts))
         IN  IF Falsy(next) THEN Undef ELSE Walk(next, Tail(parts))

(***************************************************************************)
(* The repository files on disk.  The directory does not change while the  *)
(* process runs.                                                           *)
(***************************************************************************)
PByName == <<"basic", "byName">>
PById   == <<"basic", "byId">>
PByText == <<"basic", "byText">>

\* patterns.json
PatternsA ==
    Obj([basic |-> Obj([byName |-> Str(<<"{", "n", "}", "a", "{", "n", "}">>),
                        byId   |-> Str(<<"b", "{", "n", "}">>)])])

\* 7-pattern-based.json: basic.byName is gone, basic.byId reads differently
PatternsB ==
    Obj([basic |-> Obj([byId |-> Str(<<"c", "{", "n", "}">>)])])

Templates ==
    Obj([page |-> Obj([
        user |-> Obj([pattern  |-> Str(PByName),
                      params   |-> Rec(<< <<<<"n">>, <<"u">>>> >>),
                      fallback |-> Obj([pattern |-> Str(PById),
                                        params  |-> Rec(<< <<<<"n">>, <<"u">>>> >>)])]),
        pass |-> Obj([pattern  |-> Str(PByName),
                      params   |-> Rec(<< <<<<"n">>, <<"{", "x", "}">>>> >>)]),
        link |-> Obj([pattern  |-> Str(PByName),
                      params   |-> Rec(<< <<<<"n">>, <<"l">>>> >>),
                      fallback |-> Obj([pattern |-> Str(PByText),
                                        params  |-> Rec(<<>>)]),
                      suffix   |-> Str(<<"s">>)])])])

\* login.json: every template names patterns of patterns.json
TemplatesC ==
    Obj([page |-> Obj([
        user |-> Obj([pattern  |-> Str(PByName),
                      params   |-> Rec(<< <<<<"n">>, <<"u">>>> >>),
                      fallback |-> Obj([pattern |-> Str(PById),
                                        params  |-> Rec(<< <<<<"n">>, <<"u">>>> >>)])]),
        pass |-> Obj([pattern  |-> Str(PByName),
                      params   |-> Rec(<< <<<<"n">>, <<"{", "x", "}">>>> >>)])])])

\* menus.json: the templates of login.json and two whose pattern is the
\* category basic, not a pattern of it
TemplatesD ==
    Obj([page |-> Obj([
        user |-> Obj([pattern  |-> Str(PByName),
                      params   |-> Rec(<< <<<<"n">>, <<"u">>>> >>),
                      fallback |-> Obj([pattern |-> Str(PById),
                                        params  |-> Rec(<< <<<<"n">>, <<"u">>>> >>)])]),
        menu |-> Obj([pattern  |-> Str(<<"basic">>),
                      params   |-> Rec(<< <<<<"n">>, <<"m">>>> >>)]),
        item |-> Obj([pattern  |-> Str(<<"basic">>),
                      params   |-> Rec(<< <<<<"n">>, <<"i">>>> >>),
                      fallback |-> Obj([pattern |-> Str(PById),
                                        params  |-> Rec(<< <<<<"n">>, <<"i">>>> >>)])])])])

\* the member staticElements of login.json and menus.json
StaticElements == Obj([login |-> Obj([logo |-> Str(<<"l">>)])])

Null == "null"

RepoIds == {"A", "B"}

Content(id) ==
    CASE id = "A" -> Obj([patterns |-> PatternsA, templates |-> Templates])
      [] id = "B" -> Obj([patterns |-> PatternsB, templates |-> Templates])
      [] id = "C" -> Obj([patterns |-> PatternsA, templates |-> TemplatesC,
                          staticElements |-> StaticElements])
      [] id = "D" -> Obj([patterns |-> PatternsA, templates |-> TemplatesD,
                          staticElements |-> StaticElements])

\* the member validation of a repository file: requiredPatterns and the
\* patterns named in patternGroups; patterns.json and 7-pattern-based.json
\* have none
HasValidation(id) == id \in {"C", "D"}

requiredPatterns(id) == IF id \in {"C", "D"} THEN {"basic"} ELSE {}

patternGroups(id) == IF id \in {"C", "D"} THEN {PByName, PByText} ELSE {}

FileNames == {"patterns", "patterns.json", "7-pattern-based", "missing", "broken"}

\* fileName.endsWith('.json') ? fileName : `${fileName}.json`
FilePath(fileName) ==
    CASE fileName = "patterns"        -> "patterns.json"
      [] fileName = "patterns.json"   -> "patterns.json"
      [] fileName = "7-pattern-based" -> "7-pattern-based.json"
      [] fileName = "missing"         -> "missing.json"
      [] fileName = "broken"          -> "broken.json"
      [] fileName = "login"           -> "login.json"
      [] fileName = "menus"           -> "menus.json"

\* JSON.parse(fs.readFileSync(filePath)): the parsed content, or Null when
\* the read or the parse throws (missing.json does not exist, broken.json is
\* not JSON)
ReadJson(filePath) ==
    CASE filePath = "patterns.json"        -> "A"
      [] filePath = "7-pattern-based.json" -> "B"
      [] filePath = "login.json"           -> "C"
      [] filePath = "menus.json"           -> "D"
      [] OTHER                             -> Null

(***************************************************************************)
(* State                                                                   *)
(***************************************************************************)
VARIABLES
    repository,      \* DynamicLocatorManager.repository: Null or the parsed file
    repositoryPath,  \* DynamicLocatorManager.repositoryPath
    cache,           \* DynamicLocatorManager.cache: the entries <<cache key, locator>>
    cacheEnabled,    \* DynamicLocatorManager.cacheEnabled
    repositories,    \* XPathRepositoryManager.repositories: file name -> parsed file
    last,            \* the last call and what it returned or threw
    unreadable,      \* the files of the run that cannot be read or parsed
    constructed,     \* the page objects whose constructor returned
    action,          \* the last page-object action and how it went
    phase,           \* where the scenario is: "idle", "steps", "done"
    pc,              \* the number of steps of the scenario that have run
    status,          \* the result status of the scenario so far
    currentEnvironment, \* currentEnvironment of the step definitions
    tabs,            \* the open pages of the browser context
    contextOpen,     \* the browser context exists and is not closed
    tracing,         \* context.tracing is recording
    teardown,        \* the teardown calls the After hook has made
    thisPage,        \* this.page of the page object of the workflow
    fixturePage,     \* pageFixture.page
    step,            \* the last step and what it reported
    pending          \* the browser calls that have been issued and not settled

\* the state of the two repository managers
managers == <<repository, repositoryPath, cache, cacheEnabled, repositories, last>>

\* the state of the test run around them
\* the state of one scenario run
run == <<phase, pc, status, currentEnvironment, tabs, contextOpen, tracing,
         teardown, thisPage, fixturePage, step, pending>>

world == <<unreadable, constructed, action, run>>

vars == <<managers, world>>

(***************************************************************************)
(* Results and errors                                                      *)
(***************************************************************************)
\* what a call throws: the kind of error and the path its message contains
Throw(kind, path) ==
    [ok |-> FALSE, val |-> Undef, kind |-> kind, path |-> path]

Return(val) ==
    [ok |-> TRUE, val |-> val, kind |-> "", path |-> <<>>]

\* `${patternPath}` of the cache key and of the messages
PathText(patternPath) ==
    CASE patternPath.t = "str"   -> patternPath.s
      [] patternPath.t = "undef" -> <<"undefined">>
      [] OTHER                   -> <<"[object Object]">>

\* the text of a path: its segments with the dots between them
RECURSIVE JoinDots(_)
JoinDots(segments) ==
    IF Len(segments) <= 1 THEN segments
    ELSE <<segments[1], ".">> \o JoinDots(Tail(segments))

\* a string literal without the escapes
JsonStringRaw(s) == <<"\"">> \o s \o <<"\"">>

RECURSIVE JsonEscaped(_)
JsonEscaped(s) ==
    IF s = <<>> THEN <<>>
    ELSE (IF s[1] \in {"\"", "\\"} THEN <<"\\", s[1]>> ELSE <<s[1]>>)
             \o JsonEscaped(Tail(s))

\* JSON.stringify of a string: quoted, with " and \ escaped
JsonString(s) == <<"\"">> \o JsonEscaped(s) \o <<"\"">>

RECURSIVE JsonEntries(_)
JsonEntries(parameters) ==
    IF parameters = <<>> THEN <<>>
    ELSE JsonString(parameters[1][1]) \o <<":">> \o JsonString(parameters[1][2])
             \o (IF Len(parameters) > 1 THEN <<",">> ELSE <<>>)
             \o JsonEntries(Tail(parameters))

\* JSON.stringify(parameters) of a Record<string, string>
JsonStringify(parameters) == <<"{">> \o JsonEntries(parameters) \o <<"}">>

\* `${patternPath}-${JSON.stringify(parameters)}`
CacheKey(patternPath, parameters) ==
    JoinDots(PathText(patternPath)) \o <<"-">> \o JsonStringify(parameters)

\* Map<string, string>, as the set of its <<key, value>> entries
CacheHas(c, key) == \E e \in c : e[1] = key

CacheGet(c, key) == (CHOOSE e \in c : e[1] = key)[2]

CacheSet(c, key, value) == {e \in c : e[1] # key} \cup {<<key, value>>}

\* a result that never admits the fallback
BuiltPrimaryOnly(locator, patternUsed, parametersApplied, fallbackUsed, description, lookups) ==
    [ok |-> TRUE, locator |-> locator, patternUsed |-> patternUsed,
     parametersApplied |-> parametersApplied, fallbackUsed |-> FALSE,
     description |-> description, kind |-> "", path |-> <<>>, lookups |-> lookups]

\* a LocatorBuildResult, with the number of getPattern calls made for it
Built(locator, patternUsed, parametersApplied, fallbackUsed, description, lookups) ==
    [ok |-> TRUE, locator |-> locator, patternUsed |-> patternUsed,
     parametersApplied |-> parametersApplied, fallbackUsed |-> fallbackUsed,
     description |-> description, kind |-> "", path |-> <<>>, lookups |-> lookups]

Failed(kind, path, lookups) ==
    [ok |-> FALSE, locator |-> <<>>, patternUsed |-> <<>>,
     parametersApplied |-> <<>>, fallbackUsed |-> FALSE,
     description |-> "", kind |-> kind, path |-> path, lookups |-> lookups]

(***************************************************************************)
(* DynamicLocatorManager: lookups                                          *)
(***************************************************************************)
\* getPattern, lines 430-445
getPattern(patternPath) ==
    IF repository = Null THEN Throw("NotLoaded", <<>>)
    ELSE IF patternPath.t # "str" THEN Throw("TypeError", <<>>)
    ELSE LET current == Walk(Prop(Content(repository), "patterns"), patternPath.s)
         IN  IF Falsy(current) THEN Throw("PatternNotFound", patternPath.s)
             ELSE Return(current)

\* getTemplate, lines 447-462
getTemplate(templatePath) ==
    IF repository = Null THEN Throw("NotLoaded", <<>>)
    ELSE LET current == Walk(Prop(Content(repository), "templates"), templatePath)
         IN  IF Falsy(current) THEN Throw("TemplateNotFound", templatePath)
             ELSE Return(current)

(***************************************************************************)
(* DynamicLocatorManager: buildLocator and buildFromTemplate as functions  *)
(* of the manager's state; each yields the result and the cache afterwards *)
(***************************************************************************)
\* buildLocator, lines 100-132, called with the cache c
buildLocator(c, patternPath, parameters) ==
    IF repository = Null
    THEN [res |-> Failed("NotLoaded", <<>>, 0), cache |-> c]
    ELSE
    LET cacheKey == CacheKey(patternPath, parameters) IN
    IF cacheEnabled /\ CacheHas(c, cacheKey)
    THEN [res |-> Built(CacheGet(c, cacheKey), PathText(patternPath), parameters, FALSE,
                        "Retrieved from cache", 0),
          cache |-> c]
    ELSE
    LET pattern == getPattern(patternPath) IN
    IF ~pattern.ok
    THEN [res |-> Failed(pattern.kind, pattern.path, 1), cache |-> c]
    ELSE IF pattern.val.t # "str"
    \* replaceParameters on a value that is no string: result.replace or
    \* result.match is not a function
    THEN [res |-> Failed("TypeError", <<>>, 1), cache |-> c]
    ELSE
    LET locator == replaceParameters(pattern.val.s, parameters) IN
    [res |-> Built(locator, PathText(patternPath), parameters, FALSE,
                   "Generated from pattern", 1),
     cache |-> IF cacheEnabled THEN CacheSet(c, cacheKey, locator) ELSE c]

\* finalLocator += template.suffix, when the template has one
WithSuffix(locator, template) ==
    LET suffix == Prop(template, "suffix")
    IN  IF Falsy(suffix) THEN locator ELSE locator \o suffix.s

\* buildFromTemplate, lines 137-193
buildFromTemplate(templatePath, runtimeParameters) ==
    IF repository = Null
    THEN [res |-> Failed("NotLoaded", <<>>, 0), cache |-> cache]
    ELSE
    LET found == getTemplate(templatePath) IN
    IF ~found.ok
    THEN [res |-> Failed(found.kind, found.path, 0), cache |-> cache]
    ELSE
    LET template == found.val
        allParameters ==
            Spread(SpreadEntries(Prop(template, "params")), runtimeParameters)
        resolvedParameters ==
            resolveNestedParameters(allParameters, runtimeParameters)
        primaryResult ==
            buildLocator(cache, Prop(template, "pattern"), resolvedParameters)
    IN
    IF primaryResult.res.ok
    THEN [res |-> Built(WithSuffix(primaryResult.res.locator, template),
                        PathText(Prop(template, "pattern")), resolvedParameters,
                        FALSE, "Template", primaryResult.res.lookups),
          cache |-> primaryResult.cache]
    ELSE
    LET fallback == Prop(template, "fallback") IN
    IF Falsy(fallback)
    THEN primaryResult
    ELSE
    LET fallbackParameters ==
            Spread(SpreadEntries(Prop(fallback, "params")), runtimeParameters)
        resolvedFallbackParameters ==
            resolveNestedParameters(fallbackParameters, runtimeParameters)
        fallbackResult ==
            buildLocator(primaryResult.cache, Prop(fallback, "pattern"),
                         resolvedFallbackParameters)
        lookups == primaryResult.res.lookups + fallbackResult.res.lookups
    IN
    IF fallbackResult.res.ok
    THEN [res |-> Built(WithSuffix(fallbackResult.res.locator, template),
                        PathText(Prop(fallback, "pattern")),
                        resolvedFallbackParameters, TRUE,
                        "Template (fallback used)", lookups),
          cache |-> fallbackResult.cache]
    ELSE [res |-> Failed(fallbackResult.res.kind, fallbackResult.res.path, lookups),
          cache |-> fallbackResult.cache]

(***************************************************************************)
(* Bounds and the arguments callers pass                                   *)
(***************************************************************************)
\* the most entries the cache is let grow to
MaxCache == 1

TemplatePaths ==
    {<<"page", "user">>, <<"page", "pass">>, <<"page", "link">>,
     <<"page">>, <<"page", "user", "fallback">>, <<"nonexistent", "path">>}

RuntimeParams ==
    {<<>>,
     << <<<<"n">>, <<"v">>>> >>,
     << <<<<"x">>, <<>>>> >>,
     << <<<<"n">>, <<"{", "x", "}">>>>, <<<<"x">>, <<"w">>>> >>}

PatternPaths == {PByName, PById, <<"basic">>}

DirectParams ==
    {<<>>,
     << <<<<"n">>, <<"v">>>> >>,
     << <<<<"n">>, <<"$", "&">>>> >>}

XFileNames == {"loginPage", "missing"}

\* XPathRepositoryManager reads from ../locators
XReadJson(filePath) == IF filePath = "loginPage.json" THEN "L" ELSE Null

XFilePath(fileName) ==
    CASE fileName = "loginPage"      -> "loginPage.json"
      [] fileName = "missing"        -> "missing.json"

(***************************************************************************)
(* Operations                                                              *)
(***************************************************************************)
NoResult == Built(<<>>, <<>>, <<>>, FALSE, "", 0)

Call(op, path, params, file, res) ==
    [op |-> op, path |-> path, params |-> params, file |-> file, res |-> res]

\* the two managers as their constructors leave them
InitManagers ==
    /\ repository = Null
    /\ repositoryPath = ""
    /\ cache = {}
    /\ cacheEnabled = TRUE
    /\ repositories = {}
    /\ last = Call("new", <<>>, <<>>, "", NoResult)

\* no page object has acted yet
NoAction ==
    [class |-> "", op |-> "", resolved |-> FALSE, hasFallback |-> FALSE,
     tried |-> <<>>, status |-> "", error |-> ""]

\* a step that has not run
NoStep ==
    [name |-> "", user |-> "", submitted |-> "", raised |-> {}, reported |-> "",
     page |-> "none"]

\* no scenario has started
InitRun ==
    /\ phase = "idle"
    /\ pc = 0
    /\ status = ""
    /\ currentEnvironment = ""
    /\ tabs = {}
    /\ contextOpen = FALSE
    /\ tracing = FALSE
    /\ teardown = <<>>
    /\ thisPage = "none"
    /\ fixturePage = "none"
    /\ step = NoStep
    /\ pending = {}

Init ==
    /\ InitManagers
    /\ unreadable = {}
    /\ constructed = {}
    /\ action = NoAction
    /\ InitRun

\* the result of a load that did not throw; description tells whether the
\* source was the one already loaded
Loaded(again) ==
    Built(<<>>, <<>>, <<>>, FALSE, IF again THEN "already loaded" ELSE "loaded", 0)

\* a loadRepository that refuses to load once a repository is loaded
LoadRepositoryOnce(fileName) ==
    LET filePath == FilePath(fileName)
        parsed   == ReadJson(filePath)
    IN  /\ IF parsed = Null \/ repository # Null
           THEN /\ UNCHANGED <<repository, repositoryPath>>
                /\ last' = Call("loadRepository", <<>>, <<>>, fileName,
                                Failed("LoadError", <<filePath>>, 0))
           ELSE /\ repository' = parsed
                /\ repositoryPath' = filePath
                /\ last' = Call("loadRepository", <<>>, <<>>, fileName, Loaded(FALSE))
        /\ UNCHANGED <<cache, cacheEnabled, repositories>>
        /\ UNCHANGED world

\* a loadRepository that forgets the loaded repository when the load fails
LoadRepositoryForgetting(fileName) ==
    LET filePath == FilePath(fileName)
        parsed   == IF filePath \in unreadable THEN Null ELSE ReadJson(filePath)
    IN  /\ repository' = parsed
        /\ repositoryPath' = IF parsed = Null THEN repositoryPath ELSE filePath
        /\ last' = Call("loadRepository", <<>>, <<>>, fileName,
                        IF parsed = Null THEN Failed("LoadError", <<filePath>>, 0)
                        ELSE Loaded(repository # Null /\ repositoryPath = filePath))
        /\ UNCHANGED <<cache, cacheEnabled, repositories>>
        /\ UNCHANGED world

\* DynamicLocatorManager.loadRepository, lines 77-95
LoadRepository(fileName) ==
    LET filePath == FilePath(fileName)
        parsed   == IF filePath \in unreadable THEN Null ELSE ReadJson(filePath)
    IN  /\ IF parsed = Null
           THEN /\ UNCHANGED <<repository, repositoryPath>>
                /\ last' = Call("loadRepository", <<>>, <<>>, fileName,
                                Failed("LoadError", <<filePath>>, 0))
           ELSE /\ repository' = parsed
                /\ repositoryPath' = filePath
                /\ last' = Call("loadRepository", <<>>, <<>>, fileName,
                                Loaded(repository # Null /\ repositoryPath = filePath))
        /\ UNCHANGED <<cache, cacheEnabled, repositories>>
        /\ UNCHANGED world

\* a call of buildLocator
BuildLocator(patternPath, parameters) ==
    \E r \in {buildLocator(cache, Str(patternPath), parameters)} :
        /\ Cardinality(r.cache) <= MaxCache
        /\ cache' = r.cache
        /\ last' = Call("buildLocator", patternPath, parameters, "", r.res)
        /\ UNCHANGED <<repository, repositoryPath, cacheEnabled, repositories>>
        /\ UNCHANGED world

\* a call of buildFromTemplate
BuildFromTemplate(templatePath, runtimeParameters) ==
    \E r \in {buildFromTemplate(templatePath, runtimeParameters)} :
        /\ Cardinality(r.cache) <= MaxCache
        /\ cache' = r.cache
        /\ last' = Call("buildFromTemplate", templatePath, runtimeParameters, "", r.res)
        /\ UNCHANGED <<repository, repositoryPath, cacheEnabled, repositories>>
        /\ UNCHANGED world

\* setCacheEnabled without the clear of lines 414-416
SetCacheEnabledKeeping(enabled) ==
    /\ cacheEnabled' = enabled
    /\ UNCHANGED <<repository, repositoryPath, cache, repositories, last>>
    /\ UNCHANGED world

\* setCacheEnabled, lines 412-417
SetCacheEnabled(enabled) ==
    /\ cacheEnabled' = enabled
    /\ cache' = IF enabled THEN cache ELSE {}
    /\ UNCHANGED <<repository, repositoryPath, repositories, last>>
    /\ UNCHANGED world

\* clearCache, lines 422-424
ClearCache ==
    /\ cache' = {}
    /\ UNCHANGED <<repository, repositoryPath, cacheEnabled, repositories, last>>
    /\ UNCHANGED world

\* XPathRepositoryManager.loadRepository, XPathRepository.ts lines 39-58
XLoadRepository(fileName) ==
    /\ IF \E e \in repositories : e[1] = fileName
       THEN /\ UNCHANGED repositories
            /\ last' = Call("xLoadRepository", <<>>, <<>>, fileName, Loaded(TRUE))
       ELSE LET parsed == XReadJson(XFilePath(fileName))
            IN  IF parsed = Null
                THEN /\ UNCHANGED repositories
                     /\ last' = Call("xLoadRepository", <<>>, <<>>, fileName,
                                     Failed("LoadError", <<XFilePath(fileName)>>, 0))
                ELSE /\ repositories' = repositories \cup {<<fileName, parsed>>}
                     /\ last' = Call("xLoadRepository", <<>>, <<>>, fileName, Loaded(FALSE))
    /\ UNCHANGED <<repository, repositoryPath, cache, cacheEnabled>>
    /\ UNCHANGED world

Next ==
    \/ \E fileName \in FileNames : LoadRepository(fileName)
    \/ \E patternPath \in PatternPaths, parameters \in DirectParams :
           BuildLocator(patternPath, parameters)
    \/ \E templatePath \in TemplatePaths, runtimeParameters \in RuntimeParams :
           BuildFromTemplate(templatePath, runtimeParameters)
    \/ \E enabled \in BOOLEAN : SetCacheEnabled(enabled)
    \/ ClearCache
    \/ \E fileName \in XFileNames : XLoadRepository(fileName)

Spec == Init /\ [][Next]_vars

(***************************************************************************)
(* Vocabulary of the properties                                            *)
(***************************************************************************)
IsBuild(call) == call.op \in {"buildLocator", "buildFromTemplate"}

\* the value stored at a template path of the loaded repository
TemplateAt(path) == getTemplate(path).val

\* the pattern string a repository file stores at a path, Undef if none
PatternIn(id, path) == Walk(Prop(Content(id), "patterns"), path)

\* the fixed parameters a template result was built with
FixedParams(template, fallbackUsed) ==
    SpreadEntries(Prop(IF fallbackUsed THEN Prop(template, "fallback") ELSE template,
                       "params"))

\* value has the form "{other}"
IsReference(value) ==
    Len(value) >= 2 /\ value[1] = "{" /\ value[Len(value)] = "}"

ReferredKey(value) == SubSeq(value, 2, Len(value) - 1)

\* s contains w
Contains(s, w) == \E i \in 1..Len(s) : StartsWithAt(s, i, w)

\* the placeholders {p} of a pattern whose p is no key of the parameters
UnmatchedPlaceholders(pattern, parameters) ==
    {SubSeq(pattern, i, j) : <<i, j>> \in
        {ij \in (1..Len(pattern)) \X (1..Len(pattern)) :
            /\ ij[1] + 1 < ij[2]
            /\ pattern[ij[1]] = "{"
            /\ pattern[ij[2]] = "}"
            /\ \A k \in (ij[1] + 1)..(ij[2] - 1) : pattern[k] \notin {"{", "}"}
            /\ ~HasKey(parameters, SubSeq(pattern, ij[1] + 1, ij[2] - 1))}}

\* the pattern with every {key} occurrence replaced by the value supplied
\* for key, all keys at once
RECURSIVE SubstitutedFrom(_, _, _)
SubstitutedFrom(pattern, i, parameters) ==
    IF i > Len(pattern) THEN <<>>
    ELSE IF \E e \in 1..Len(parameters) :
                StartsWithAt(pattern, i, Placeholder(parameters[e][1]))
        THEN LET e == CHOOSE e \in 1..Len(parameters) :
                          StartsWithAt(pattern, i, Placeholder(parameters[e][1]))
             IN  parameters[e][2]
                     \o SubstitutedFrom(pattern, i + Len(Placeholder(parameters[e][1])),
                                        parameters)
    ELSE <<pattern[i]>> \o SubstitutedFrom(pattern, i + 1, parameters)

(***************************************************************************)
(* C1  Determinism of resolution.  Two calls of buildLocator, or of         *)
(* buildFromTemplate, with the same arguments, between which loadRepository *)
(* is not called (setCacheEnabled and clearCache may be), return the same   *)
(* locator string.                                                          *)
(***************************************************************************)
C1_SameLocatorWithoutReload ==
    [][(/\ IsBuild(last)
        /\ last'.op = last.op
        /\ last'.path = last.path
        /\ last'.params = last.params
        /\ last.res.ok
        /\ last'.res.ok)
       => last'.res.locator = last.res.locator]_vars

(***************************************************************************)
(* C2  Parameter precedence, as claimed: for a key that the template's      *)
(* fixed parameters (the fallback's, on the fallback path) and the runtime  *)
(* parameters both define, parametersApplied of a buildFromTemplate result  *)
(* holds the runtime value.                                                 *)
(***************************************************************************)
C2_RuntimeValueApplied ==
    (last.op = "buildFromTemplate" /\ last.res.ok) =>
        \A k \in Keys(FixedParams(TemplateAt(last.path), last.res.fallbackUsed))
                     \cap Keys(last.params) :
            Get(last.res.parametersApplied, k) = Get(last.params, k)

\* the runtime value of key k as nested resolution leaves it: a value
\* "{other}" gives way to a non-empty runtime value of other
RuntimeValueResolved(runtime, k) ==
    LET value == Get(runtime, k)
    IN  IF /\ IsReference(value)
           /\ HasKey(runtime, ReferredKey(value))
           /\ Get(runtime, ReferredKey(value)) # <<>>
        THEN Get(runtime, ReferredKey(value))
        ELSE value

(***************************************************************************)
(* C2  Parameter precedence, amended: for a key that the fixed parameters   *)
(* and the runtime parameters both define, parametersApplied holds the      *)
(* runtime value, itself resolved against the runtime parameters when it    *)
(* has the form "{other}", and never the fixed value; and the locator is    *)
(* the pattern named by patternUsed with parametersApplied substituted (and *)
(* the template's suffix appended).  Primary and fallback path alike.       *)
(***************************************************************************)
C2_RuntimeValueWins ==
    (last.op = "buildFromTemplate" /\ last.res.ok) =>
        LET template == TemplateAt(last.path)
        IN  /\ \A k \in Keys(FixedParams(template, last.res.fallbackUsed))
                            \cap Keys(last.params) :
                   Get(last.res.parametersApplied, k)
                       = RuntimeValueResolved(last.params, k)
            /\ \E id \in RepoIds :
                   /\ PatternIn(id, last.res.patternUsed).t = "str"
                   /\ last.res.locator =
                          WithSuffix(replaceParameters(
                                         PatternIn(id, last.res.patternUsed).s,
                                         last.res.parametersApplied),
                                     template)

\* a fallback result in which the runtime value of a colliding key was applied
C2_Witness ==
    /\ last.op = "buildFromTemplate"
    /\ last.res.ok
    /\ last.res.fallbackUsed
    /\ \E k \in Keys(FixedParams(TemplateAt(last.path), TRUE)) \cap Keys(last.params) :
           /\ Get(last.res.parametersApplied, k) = Get(last.params, k)
           /\ Get(last.res.parametersApplied, k)
                  # Get(FixedParams(TemplateAt(last.path), TRUE), k)

(***************************************************************************)
(* C3  Fallback correctness.  For a template that defines a fallback whose  *)
(* pattern the table resolves, and whose primary pattern path the table of  *)
(* the loaded repository does not resolve, buildFromTemplate returns the    *)
(* locator built from the fallback pattern and the fallback parameters,     *)
(* with fallbackUsed = true.                                                *)
(***************************************************************************)
C3_FallbackOnUnresolvedPrimary ==
    (last.op = "buildFromTemplate" /\ repository # Null /\ getTemplate(last.path).ok) =>
        LET template == TemplateAt(last.path)
            fallback == Prop(template, "fallback")
            primary  == Prop(template, "pattern")
        IN  (/\ ~Falsy(fallback)
             /\ primary.t = "str"
             /\ ~getPattern(primary).ok
             /\ getPattern(Prop(fallback, "pattern")).ok
             /\ getPattern(Prop(fallback, "pattern")).val.t = "str")
            => /\ last.res.ok
               /\ last.res.fallbackUsed
               /\ last.res.patternUsed = Prop(fallback, "pattern").s
               /\ last.res.locator =
                      WithSuffix(replaceParameters(
                                     getPattern(Prop(fallback, "pattern")).val.s,
                                     last.res.parametersApplied),
                                 template)

(***************************************************************************)
(* C4  NotFound without fallback.  For a template without a fallback whose  *)
(* primary pattern path is absent from the pattern table of the loaded      *)
(* repository, buildFromTemplate raises the pattern-not-found error for     *)
(* that path and returns no result.                                         *)
(***************************************************************************)
C4_NotFoundWithoutFallback ==
    (last.op = "buildFromTemplate" /\ repository # Null /\ getTemplate(last.path).ok) =>
        LET template == TemplateAt(last.path)
            primary  == Prop(template, "pattern")
        IN  (/\ Falsy(Prop(template, "fallback"))
             /\ primary.t = "str"
             /\ ~getPattern(primary).ok)
            => /\ ~last.res.ok
               /\ last.res.kind = "PatternNotFound"
               /\ last.res.path = primary.s

(***************************************************************************)
(* C5  Nested parameter resolution.  For every fixed parameter of the       *)
(* template whose value has the form "{other}" and whose key the caller     *)
(* does not override, whenever other is a key of the runtime parameters     *)
(* (whatever its value, the empty string included), parametersApplied      *)
(* holds the runtime value of other for it.                                 *)
(***************************************************************************)
C5_NestedReferenceResolved ==
    (last.op = "buildFromTemplate" /\ last.res.ok) =>
        LET fixed == FixedParams(TemplateAt(last.path), last.res.fallbackUsed)
        IN  \A i \in 1..Len(fixed) :
                (/\ IsReference(fixed[i][2])
                 /\ HasKey(last.params, ReferredKey(fixed[i][2]))
                 /\ ~HasKey(last.params, fixed[i][1]))
                => Get(last.res.parametersApplied, fixed[i][1])
                       = Get(last.params, ReferredKey(fixed[i][2]))

C7_FullSubstitution ==
    (/\ last.op = "buildLocator"
     /\ last.res.ok
     /\ repository # Null
     /\ PatternIn(repository, last.path).t = "str")
    => last.res.locator =
           SubstitutedFrom(PatternIn(repository, last.path).s, 1, last.params)

\* the template definitions of the loaded repository are the members of its
\* page sections: templates[page][element]
IsTemplateEntry(path) ==
    /\ Len(path) = 2
    /\ Walk(Prop(Content(repository), "templates"), path).t = "obj"

(***************************************************************************)
(* C8  Unknown template path.  buildFromTemplate on a path at which the     *)
(* loaded repository has no template entry raises the template-not-found    *)
(* error naming that path, before any pattern lookup (so that no fallback   *)
(* is tried and nothing is cached).                                         *)
(***************************************************************************)
C8_UnknownTemplateRaises ==
    (last.op = "buildFromTemplate" /\ repository # Null /\ ~IsTemplateEntry(last.path))
    => /\ ~last.res.ok
       /\ last.res.kind = "TemplateNotFound"
       /\ last.res.path = last.path
       /\ last.res.lookups = 0

(***************************************************************************)
(* C9  Unresolved placeholders are non-fatal.  A build whose pattern the    *)
(* loaded repository resolves to a string returns normally whatever         *)
(* placeholders the parameters leave unmatched, and every returned locator  *)
(* keeps, verbatim, each placeholder of the pattern it was built from that  *)
(* no key of the applied parameters matches.                                *)
(***************************************************************************)
C9_UnresolvedPlaceholdersKept ==
    /\ (/\ last.op = "buildLocator"
        /\ repository # Null
        /\ PatternIn(repository, last.path).t = "str")
       => last.res.ok
    /\ (/\ last.op = "buildFromTemplate"
        /\ repository # Null
        /\ getTemplate(last.path).ok
        /\ Prop(TemplateAt(last.path), "pattern").t = "str"
        /\ PatternIn(repository, Prop(TemplateAt(last.path), "pattern").s).t = "str")
       => last.res.ok
    /\ (IsBuild(last) /\ last.res.ok)
       => \E id \in RepoIds :
              /\ PatternIn(id, last.res.patternUsed).t = "str"
              /\ \A ph \in UnmatchedPlaceholders(PatternIn(id, last.res.patternUsed).s,
                                                 last.res.parametersApplied) :
                     Contains(last.res.locator, ph)

\* a build returned a locator that still holds an unmatched placeholder
C9_Witness ==
    /\ IsBuild(last)
    /\ last.res.ok
    /\ repository # Null
    /\ PatternIn(repository, last.res.patternUsed).t = "str"
    /\ UnmatchedPlaceholders(PatternIn(repository, last.res.patternUsed).s,
                             last.res.parametersApplied) # {}
    /\ HasUnreplaced(last.res.locator)

(***************************************************************************)
(* C10 Cached locators are never stale.  Every locator buildLocator         *)
(* answers from its cache is the one substitution over the pattern of the   *)
(* loaded repository gives for the same pattern path and parameters.        *)
(***************************************************************************)
C10_CachedLocatorFresh ==
    (/\ last.op = "buildLocator"
     /\ last.res.ok
     /\ last.res.description = "Retrieved from cache")
    => /\ PatternIn(repository, last.path).t = "str"
       /\ last.res.locator =
              replaceParameters(PatternIn(repository, last.path).s, last.params)

(***************************************************************************)
(* Page objects                                                            *)
(*                                                                         *)
(* XPathBasedLoginPage reads its locators from the XPath repository        *)
(* loginPage; PatternBasedLoginPage and LoginPage read theirs from the     *)
(* templates of DynamicLocatorManager.  What the browser answers to a      *)
(* waitFor is an input of the action: seen[i] tells whether the element of *)
(* the i-th wait became visible before the timeout.                        *)
(***************************************************************************)
\* loginPage.json: elements[name].xpath and .alternateXpath (<<>> when the
\* element has none)
XElements ==
    [usernameInput |-> [xpath |-> <<"x", "u">>, alternateXpath |-> <<"a", "u">>],
     passwordInput |-> [xpath |-> <<"x", "p">>, alternateXpath |-> <<>>],
     loginButton   |-> [xpath |-> <<"x", "b">>, alternateXpath |-> <<"a", "b">>]]

\* the templates the login page objects name
usernameField == <<"page", "user">>
passwordField == <<"page", "pass">>
loginButton   == <<"page", "link">>

\* safeClick(locator, retries = 3)
DefaultRetries == 3

Seen == [1..DefaultRetries -> BOOLEAN]

Classes == {"XPathBasedLoginPage", "PatternBasedLoginPage", "LoginPage"}

\* one waitFor: which locator it waited for and whether it timed out
Attempt(kind, locator, timedOut) ==
    [kind |-> kind, locator |-> locator, timedOut |-> timedOut]

Acted(class, op, resolved, hasFallback, tried) ==
    [class |-> class, op |-> op, resolved |-> resolved, hasFallback |-> hasFallback,
     tried |-> tried, status |-> "done", error |-> ""]

Raised(class, op, resolved, hasFallback, tried, error) ==
    [class |-> class, op |-> op, resolved |-> resolved, hasFallback |-> hasFallback,
     tried |-> tried, status |-> "failed", error |-> error]

\* XPathBasedLoginPage.enterUsername / enterPassword / clickLoginButton,
\* BasePage.ts lines 66-118
XPathAct(op, elementName, seen) ==
    LET element     == XElements[elementName]
        hasFallback == element.alternateXpath # <<>>
        first       == Attempt("primary", element.xpath, ~seen[1])
        second      == Attempt("fallback", element.alternateXpath, ~seen[2])
    IN  IF seen[1]
        THEN Acted("XPathBasedLoginPage", op, TRUE, hasFallback, <<first>>)
        ELSE IF ~hasFallback
             THEN Raised("XPathBasedLoginPage", op, TRUE, hasFallback, <<first>>,
                         "AlternateNotFound")
             ELSE IF seen[2]
                  THEN Acted("XPathBasedLoginPage", op, TRUE, hasFallback,
                             <<first, second>>)
                  ELSE Raised("XPathBasedLoginPage", op, TRUE, hasFallback,
                              <<first, second>>, "Timeout")

\* PatternBasedLoginPage.enterUsername / enterPassword / clickLoginButton,
\* PatternBasedLoginPage.ts lines 45-96, on the result r of buildFromTemplate
PatternAct(op, templatePath, r, seen) ==
    LET hasFallback == /\ getTemplate(templatePath).ok
                       /\ ~Falsy(Prop(TemplateAt(templatePath), "fallback"))
        first == Attempt(IF r.res.fallbackUsed THEN "fallback" ELSE "primary",
                         r.res.locator, ~seen[1])
    IN  IF ~r.res.ok
        THEN Raised("PatternBasedLoginPage", op, TRUE, hasFallback, <<>>, r.res.kind)
        ELSE IF seen[1]
             THEN Acted("PatternBasedLoginPage", op, TRUE, hasFallback, <<first>>)
             ELSE Raised("PatternBasedLoginPage", op, TRUE, hasFallback, <<first>>,
                         "Failed")

\* CommonFunctions.safeClick, CommonFunctions.ts lines 55-68: the waits of the
\* attempts attempt..retries
RECURSIVE safeClickFrom(_, _, _, _)
safeClickFrom(locator, attempt, retries, seen) ==
    IF attempt > retries THEN <<>>
    ELSE IF seen[attempt] \/ attempt = retries
    THEN <<Attempt("primary", locator, ~seen[attempt])>>
    ELSE <<Attempt("primary", locator, TRUE)>>
             \o safeClickFrom(locator, attempt + 1, retries, seen)

\* LoginPage.performUserTypeLogin, its click of the login button:
\* safeClick(_getLocator('loginPage.loginButton')), LoginPage.ts line 59
LoginPageClick(op, templatePath, r, seen) ==
    LET hasFallback == /\ getTemplate(templatePath).ok
                       /\ ~Falsy(Prop(TemplateAt(templatePath), "fallback"))
        tried == safeClickFrom(r.res.locator, 1, DefaultRetries, seen)
    IN  IF ~r.res.ok
        THEN Raised("LoginPage", op, TRUE, hasFallback, <<>>, r.res.kind)
        ELSE IF tried[Len(tried)].timedOut
             THEN Raised("LoginPage", op, TRUE, hasFallback, tried, "Failed")
             ELSE Acted("LoginPage", op, TRUE, hasFallback, tried)

\* the constructors: PatternBasedLoginPage.ts lines 9-21 (rethrows the load
\* error), LoginPage.ts lines 15-26 (logs it and goes on), BasePage.ts lines
\* 46-49 for XPathBasedLoginPage (loads nothing)
constructor(class) ==
    LET filePath == FilePath("patterns")
        parsed   == IF filePath \in unreadable THEN Null ELSE ReadJson(filePath)
        loads    == class # "XPathBasedLoginPage"
        failed   == loads /\ parsed = Null
        thrown   == failed /\ class = "PatternBasedLoginPage"
    IN  /\ IF loads /\ ~failed
           THEN /\ repository' = parsed
                /\ repositoryPath' = filePath
           ELSE UNCHANGED <<repository, repositoryPath>>
        /\ last' = IF ~loads THEN last
                   ELSE Call("loadRepository", <<>>, <<>>, "patterns",
                             IF failed THEN Failed("LoadError", <<filePath>>, 0)
                             ELSE Loaded(repository # Null /\ repositoryPath = filePath))
        /\ constructed' = IF thrown THEN constructed ELSE constructed \cup {class}
        /\ action' = [NoAction EXCEPT !.class = class, !.op = "new",
                                      !.status = IF thrown THEN "failed" ELSE "done",
                                      !.error = IF thrown THEN "LoadError" ELSE ""]
        /\ UNCHANGED <<cache, cacheEnabled, repositories, unreadable>>

\* a page object is constructed outside a scenario step
Construct(class) == constructor(class) /\ UNCHANGED run

XPathOps ==
    {<<"enterUsername", "usernameInput">>, <<"enterPassword", "passwordInput">>,
     <<"clickLoginButton", "loginButton">>}

PatternOps ==
    {<<"enterUsername", usernameField>>, <<"enterPassword", passwordField>>,
     <<"clickLoginButton", loginButton>>}

\* an action of XPathBasedLoginPage; getXPath loads the repository loginPage
XPathAction(o, seen) ==
    /\ "XPathBasedLoginPage" \in constructed
    /\ repositories' = repositories \cup {<<"loginPage", XReadJson(XFilePath("loginPage"))>>}
    /\ action' = XPathAct(o[1], o[2], seen)
    /\ UNCHANGED <<repository, repositoryPath, cache, cacheEnabled, last>>
    /\ UNCHANGED <<unreadable, constructed, run>>

\* an action of PatternBasedLoginPage
PatternAction(o, seen) ==
    \E r \in {buildFromTemplate(o[2], <<>>)} :
        /\ "PatternBasedLoginPage" \in constructed
        /\ Cardinality(r.cache) <= MaxCache
        /\ cache' = r.cache
        /\ last' = Call("buildFromTemplate", o[2], <<>>, "", r.res)
        /\ action' = PatternAct(o[1], o[2], r, seen)
        /\ UNCHANGED <<repository, repositoryPath, cacheEnabled, repositories>>
        /\ UNCHANGED <<unreadable, constructed, run>>

\* LoginPage clicking the login button
LoginPageAction(seen) ==
    \E r \in {buildFromTemplate(loginButton, <<>>)} :
        /\ "LoginPage" \in constructed
        /\ Cardinality(r.cache) <= MaxCache
        /\ cache' = r.cache
        /\ last' = Call("buildFromTemplate", loginButton, <<>>, "", r.res)
        /\ action' = LoginPageClick("performUserTypeLogin", loginButton, r, seen)
        /\ UNCHANGED <<repository, repositoryPath, cacheEnabled, repositories>>
        /\ UNCHANGED <<unreadable, constructed, run>>

\* patterns.json is readable or not for the whole run
InitPages ==
    /\ InitManagers
    /\ unreadable \in SUBSET {"patterns.json"}
    /\ constructed = {}
    /\ action = NoAction
    /\ InitRun

NextPages ==
    \/ \E class \in Classes : Construct(class)
    \/ \E o \in XPathOps, seen \in Seen : XPathAction(o, seen)
    \/ \E o \in PatternOps, seen \in Seen : PatternAction(o, seen)
    \/ \E seen \in Seen : LoginPageAction(seen)

SpecPages == InitPages /\ [][NextPages]_vars

(***************************************************************************)
(* C11 Single fallback-and-retry on timeout.  Every page-object action on  *)
(* an element that has a fallback locator, whose first wait times out,      *)
(* waits exactly once more, on the fallback locator, and fails exactly when *)
(* that second wait times out too; no action waits more than twice.        *)
(***************************************************************************)
C11_SingleFallbackRetry ==
    /\ Len(action.tried) <= 2
    /\ (/\ action.hasFallback
        /\ Len(action.tried) >= 1
        /\ action.tried[1].kind = "primary"
        /\ action.tried[1].timedOut)
       => /\ Len(action.tried) = 2
          /\ action.tried[2].kind = "fallback"
          /\ (action.status = "failed") <=> action.tried[2].timedOut

(***************************************************************************)
(* C12 LoadError is fatal and immediate.  A page object whose constructor  *)
(* asked for the pattern repository exists only if the repository is       *)
(* loaded, so that no page object resolves a locator without one.          *)
(***************************************************************************)
C12_LoadErrorFatal ==
    /\ \A class \in constructed \ {"XPathBasedLoginPage"} : repository # Null
    /\ (action.resolved /\ action.class # "XPathBasedLoginPage") => repository # Null

(***************************************************************************)
(* One scenario: the hooks and the steps of the quote workflow             *)
(*                                                                         *)
(* A step is one action of the model; what the browser does during it (an  *)
(* action raising, Salesforce closing the page, a new tab opening) is its  *)
(* input.  The locators the steps resolve are templates outside the        *)
(* fixture above; a resolution that throws is one way an action raises.    *)
(* AfterStep is the one that screenshots every open page inside try/catch  *)
(* and changes nothing.                                                    *)
(***************************************************************************)
\* the pages a scenario opens, in the order context.pages() lists them
Opened == <<"main", "quote", "approval", "agreement">>

\* pages[pages.length - 1] of a non-empty set of open pages
Newest(pages) ==
    Opened[CHOOSE i \in 1..Len(Opened) :
               /\ Opened[i] \in pages
               /\ \A j \in (i + 1)..Len(Opened) : Opened[j] \notin pages]

\* pages.find(p => p.url().includes('QuoteWizard'))
FindQuoteWizard(pages) == IF "quote" \in pages THEN "quote" ELSE "none"

Environments == {"GCI", "BISUAT", "Proservira"}

Users == {"gciUser", "bisuatUser", "validUser"}

\* TestDataManager.getUserByEnvironment, its table; "" where it has no entry
envToUserMapping(environment) ==
    CASE environment = "GCI"       -> "gciUser"
      [] environment = "Dev"       -> "devUser"
      [] environment = "BISUAT"    -> "bisuatUser"
      [] environment = "RingCXdev" -> "RingCXdev"
      [] OTHER                     -> ""

Reported(name, user, submitted, raised, failed) ==
    [name |-> name, user |-> user, submitted |-> submitted, raised |-> raised,
     reported |-> IF failed THEN "failed" ELSE "passed", page |-> "none"]

\* the runner takes the next step only while no step has failed
CanStep(n) == phase = "steps" /\ status = "PASSED" /\ pc = n

StepDone(s) ==
    /\ step' = s
    /\ pc' = pc + 1
    /\ status' = IF s.reported = "failed" THEN "FAILED" ELSE status

\* Before hook, part_009 lines 28-52; page is the page context.newPage() makes.
\* The hook does not touch the page objects the step definitions keep.
BeforeWith(page) ==
    /\ phase \in {"idle", "done"}
    /\ phase' = "steps"
    /\ pc' = 0
    /\ status' = "PASSED"
    /\ contextOpen' = TRUE
    /\ tracing' = TRUE
    /\ tabs' = {page}
    /\ fixturePage' = page
    /\ teardown' = <<>>
    /\ step' = NoStep
    /\ UNCHANGED <<managers, unreadable, constructed, action, currentEnvironment,
                   pending, thisPage>>

\* the hook in a run of the quote workflow
Before == BeforeWith("main")

\* page.close() and context.close() on a target that is already closed
\* return without closing anything
Close(call, isOpen) == IF isOpen THEN call ELSE call \o " (already closed)"

\* After hook, part_009 lines 62-99: for a passed scenario the screenshot of
\* a closed page rejects and ends the hook before any teardown call, and the
\* page and the context are closed a second time after the attachments
After ==
    /\ phase = "steps"
    /\ pc >= 1
    /\ phase' = "done"
    /\ IF status = "PASSED" /\ fixturePage \notin tabs
       THEN UNCHANGED <<tracing, contextOpen, tabs, teardown>>
       ELSE /\ tracing' = FALSE
            /\ contextOpen' = FALSE
            /\ tabs' = {}
            /\ teardown' = <<"tracing.stop",
                             Close("page.close", fixturePage \in tabs),
                             Close("context.close", contextOpen)>>
                           \o (IF status = "PASSED"
                               THEN <<Close("page.close", FALSE),
                                      Close("context.close", FALSE)>>
                               ELSE <<>>)
    /\ UNCHANGED <<managers, unreadable, constructed, action, pending>>
    /\ UNCHANGED <<pc, status, currentEnvironment, thisPage, fixturePage, step>>

\* Given 'User navigate to the {string} login page', simple-login.steps.ts
\* lines 18-22
Navigate(environment, raises) ==
    /\ CanStep(0)
    /\ constructor("LoginPage")
    /\ currentEnvironment' = environment
    /\ thisPage' = fixturePage
    /\ StepDone(Reported("navigate", "", "", IF raises THEN {"goto"} ELSE {}, raises))
    /\ UNCHANGED <<phase, tabs, contextOpen, tracing, teardown, fixturePage,
                   pending>>

\* When 'User login as {string}', simple-login.steps.ts lines 28-31, and
\* LoginPage.performEnvironmentLogin
Login(userType, raises) ==
    LET mapped == envToUserMapping(currentEnvironment)
    IN  /\ CanStep(1)
        /\ StepDone(IF mapped = ""
                    THEN Reported("login", userType, "", {"getUserByEnvironment"}, TRUE)
                    ELSE IF raises
                         THEN Reported("login", userType, "", {"safeFill"}, TRUE)
                         ELSE Reported("login", userType, mapped, {}, FALSE))
        /\ UNCHANGED <<managers, unreadable, constructed, action, pending>>
        /\ UNCHANGED <<phase, currentEnvironment, tabs, contextOpen, tracing,
                       teardown, thisPage, fixturePage>>

\* When 'User create lead with country {string}', simple-login.steps.ts
\* lines 33-54: a page closed under the step counts as success
CreateLead(outcome) ==
    /\ CanStep(2)
    /\ tabs' = IF outcome = "closed" THEN tabs \ {thisPage} ELSE tabs
    /\ StepDone(CASE outcome = "ok"     -> Reported("createLead", "", "", {}, FALSE)
                  [] outcome = "closed" ->
                         Reported("createLead", "", "", {"Target page closed"}, FALSE)
                  [] outcome = "error"  ->
                         Reported("createLead", "", "", {"error"}, TRUE))
    /\ UNCHANGED <<managers, unreadable, constructed, action, pending>>
    /\ UNCHANGED <<phase, currentEnvironment, contextOpen, tracing, teardown,
                   thisPage, fixturePage>>

\* what can raise in convertlead_to_opportunity: the wait for the iframe,
\* which nothing catches, or the Apply and Convert clicks, which are caught
ConvertRaises ==
    {{}, {"waitForSelector"}, {"apply"}, {"convert"}, {"apply", "convert"}}

\* When 'User convert it to {string}', LoginPage.convertlead_to_opportunity,
\* LoginPage.ts lines 249-285 and 431-488
Convert(raised) ==
    /\ CanStep(3)
    /\ thisPage \notin tabs => raised = {"waitForSelector"}
    /\ StepDone(Reported("convert", "", "", raised, "waitForSelector" \in raised))
    /\ UNCHANGED <<managers, unreadable, constructed, action, pending>>
    /\ UNCHANGED <<phase, currentEnvironment, tabs, contextOpen, tracing, teardown,
                   thisPage, fixturePage>>

\* When 'User create new {string}', LoginPage.create_new_quote, part_005
\* lines 545-592: the new tab becomes this.page; pageFixture.page is not
\* assigned
CreateNewQuote(opens, raises) ==
    /\ CanStep(4)
    /\ thisPage \notin tabs => ~opens
    /\ opens \/ ~raises
    /\ tabs' = IF opens THEN tabs \cup {"quote"} ELSE tabs
    /\ thisPage' = IF opens THEN "quote" ELSE thisPage
    /\ StepDone(IF ~opens
                THEN Reported("createNewQuote", "", "", {"waitForEvent"}, TRUE)
                ELSE IF raises
                     THEN Reported("createNewQuote", "", "", {"verifyPageLoaded"}, TRUE)
                     ELSE Reported("createNewQuote", "", "", {}, FALSE))
    /\ UNCHANGED <<managers, unreadable, constructed, action, pending>>
    /\ UNCHANGED <<phase, currentEnvironment, contextOpen, tracing, teardown,
                   fixturePage>>

\* successfully_created_the_quote, QuotePage.ts lines 528-740, from the open
\* pages and pageFixture.page to the pages and references it leaves; opens1
\* and raises1 tell whether the approval tab opens and whether a call on it
\* raises, opens2 and raises2 the same for the sales agreement tab
successfully_created_the_quote(open, fixture, opens1, raises1, opens2, raises2) ==
    LET afterClick   == IF opens1 THEN open \cup {"approval"} ELSE open
        approvalPage == Newest(afterClick)
        afterClose   == afterClick \ {approvalPage}
        quotePageRef == FindQuoteWizard(afterClose)
        Left(pages, page, raised) ==
            [tabs |-> pages, thisPage |-> page, fixturePage |-> page,
             raised |-> raised]
    IN  IF fixture \notin open
        THEN [tabs |-> open, thisPage |-> fixture, fixturePage |-> fixture,
              raised |-> {"click"}]
        ELSE IF raises1
             THEN Left(afterClick, approvalPage, {"approvalPage"})
        ELSE IF quotePageRef = "none"
             THEN Left(afterClose, approvalPage, {"Could not find quote page"})
        ELSE IF ~opens2
             THEN Left(afterClose, quotePageRef, {"waitForEvent"})
        ELSE IF raises2
             THEN Left(afterClose \cup {"agreement"}, "agreement",
                       {"salesagreemnet_Page"})
        ELSE Left(afterClose, quotePageRef, {})

\* When 'User successfully created the quote', simple-login.steps.ts
\* lines 68-70
CreatedQuote(approvalOpens, approvalRaises, agreementOpens, agreementRaises) ==
    \E r \in {successfully_created_the_quote(tabs, fixturePage, approvalOpens,
                  approvalRaises, agreementOpens, agreementRaises)} :
        /\ CanStep(5)
        /\ tabs' = r.tabs
        /\ thisPage' = r.thisPage
        /\ fixturePage' = r.fixturePage
        /\ StepDone(Reported("createdQuote", "", "", r.raised, r.raised # {}))
        /\ UNCHANGED <<managers, unreadable, constructed, action, pending>>
        /\ UNCHANGED <<phase, currentEnvironment, contextOpen, tracing, teardown>>

NextScenario ==
    \/ Before
    \/ \E environment \in Environments, raises \in BOOLEAN :
           Navigate(environment, raises)
    \/ \E userType \in Users, raises \in BOOLEAN : Login(userType, raises)
    \/ \E outcome \in {"ok", "closed", "error"} : CreateLead(outcome)
    \/ \E raised \in ConvertRaises : Convert(raised)
    \/ \E opens, raises \in BOOLEAN : CreateNewQuote(opens, raises)
    \/ \E approvalOpens, approvalRaises, agreementOpens, agreementRaises \in BOOLEAN :
           CreatedQuote(approvalOpens, approvalRaises, agreementOpens,
                        agreementRaises)
    \/ After

SpecScenario == Init /\ [][NextScenario]_vars

TeardownCalls(call) == Cardinality({i \in 1..Len(teardown) : teardown[i] = call})

\* C13: when the After hook has run, whatever the scenario's result, tracing
\* is stopped and no page and no context is left open; the hook closed the
\* context once and the page at most once (a page the application closed is
\* not closed again), and tracing was stopped before the context was closed.
C13_GuaranteedTeardown ==
    phase = "done" =>
        /\ ~tracing
        /\ ~contextOpen
        /\ tabs = {}
        /\ TeardownCalls("tracing.stop") = 1
        /\ TeardownCalls("page.close") <= 1
        /\ TeardownCalls("context.close") = 1
        /\ \A i, j \in 1..Len(teardown) :
               (teardown[i] = "tracing.stop" /\ teardown[j] = "context.close")
                   => i < j

\* C14: a step reports success only if every action it issued completed; a
\* page closed under the step is no exception.
C14_NoPartialSuccess == step.reported = "passed" => step.raised = {}

\* C15: after a step that opens, switches or closes a tab has passed,
\* this.page and pageFixture.page are the same open tab.
C15_CurrentPageTracking ==
    (/\ phase = "steps"
     /\ step.name \in {"createNewQuote", "createdQuote"}
     /\ step.reported = "passed")
        => thisPage = fixturePage /\ thisPage \in tabs

\* C20: the login step submits the credentials of the user named in the step.
C20_LoginAsNamedUser ==
    (step.name = "login" /\ step.submitted # "") => step.submitted = step.user

(***************************************************************************)
(* Locator managers: what a result says about itself, cache keys, and      *)
(* XPathRepositoryManager.getDynamicXPath                                  *)
(***************************************************************************)
\* the last locator is what substitution over the pattern some repository
\* file stores at patternPath gives for the parameters of the result (the
\* cache may answer with the locator of a file loaded earlier)
BuiltFrom(patternPath, template) ==
    \E id \in RepoIds :
        /\ PatternIn(id, patternPath).t = "str"
        /\ last.res.locator =
               WithSuffix(replaceParameters(PatternIn(id, patternPath).s,
                                            last.res.parametersApplied),
                          template)

ReplaceFirst(s, w, value) ==
    IF ~Contains(s, w) THEN s
    ELSE LET i == CHOOSE i \in 1..Len(s) :
                      /\ StartsWithAt(s, i, w)
                      /\ \A j \in 1..(i - 1) : ~StartsWithAt(s, j, w)
         IN  SubSeq(s, 1, i - 1) \o GetSubstitution(value, 1, s, i, Len(w))
                 \o SubSeq(s, i + Len(w), Len(s))

\* Object.entries(replacements).forEach(([key, value]) =>
\*     xpath = xpath.replace(`{${key}}`, value))
RECURSIVE ReplaceFirstEach(_, _)
ReplaceFirstEach(xpath, replacements) ==
    IF replacements = <<>> THEN xpath
    ELSE ReplaceFirstEach(
             ReplaceFirst(xpath, Placeholder(replacements[1][1]), replacements[1][2]),
             Tail(replacements))

\* xpathPatterns of loginPage.json
XPatterns ==
    [buttonByText       |-> <<"b", "{", "t", "}">>,
     rowByText          |-> <<"{", "t", "}", "r", "{", "t", "}">>,
     elementByAttribute |-> <<"{", "a", "}", "e", "{", "v", "}">>]

XPatternNames == {"buttonByText", "rowByText", "elementByAttribute", "unknown"}

Replacements ==
    {<<>>,
     << <<<<"t">>, <<"x">>>> >>,
     << <<<<"t">>, <<"$", "&">>>> >>,
     << <<<<"t">>, <<>>>> >>,
     << <<<<"a">>, <<"i">>>>, <<<<"v">>, <<"j">>>> >>,
     << <<<<"v">>, <<"j">>>>, <<<<"a">>, <<"i">>>> >>,
     << <<<<"a">>, <<"{", "v", "}">>>>, <<<<"v">>, <<"j">>>> >>,
     << <<<<"u">>, <<"x">>>> >>,
     << <<<<"t">>, <<"y">>>>, <<<<"u">>, <<"x">>>> >>,
     << <<<<"t">>, <<"{", "t", "}">>>> >>}

\* XPathRepositoryManager.getDynamicXPath, XPathRepository.ts lines 105-123,
\* its loadRepository included
XGetDynamicXPath(repositoryName, patternName, replacements) ==
    LET loaded == \E e \in repositories : e[1] = repositoryName
        parsed == XReadJson(XFilePath(repositoryName))
    IN  /\ repositories' =
               IF loaded \/ parsed = Null THEN repositories
               ELSE repositories \cup {<<repositoryName, parsed>>}
        /\ last' = Call("getDynamicXPath", <<patternName>>, replacements,
                        repositoryName,
                        IF ~loaded /\ parsed = Null
                        THEN Failed("LoadError", <<XFilePath(repositoryName)>>, 0)
                        ELSE IF patternName \notin DOMAIN XPatterns
                        THEN Failed("XPathPatternNotFound",
                                    <<patternName, repositoryName>>, 0)
                        ELSE Built(ReplaceFirstEach(XPatterns[patternName],
                                                    replacements),
                                   <<patternName>>, replacements, FALSE, "", 0))
        /\ UNCHANGED <<repository, repositoryPath, cache, cacheEnabled>>
        /\ UNCHANGED world

NextXPath ==
    \/ \E fileName \in XFileNames : XLoadRepository(fileName)
    \/ \E repositoryName \in XFileNames, patternName \in XPatternNames,
          replacements \in Replacements :
           XGetDynamicXPath(repositoryName, patternName, replacements)

SpecXPath == Init /\ [][NextXPath]_vars

\* C18: getDynamicXPath returns the named pattern with every occurrence of
\* {key} replaced by the value given for key, for every key of replacements;
\* an unknown pattern name raises an error naming the pattern and the
\* repository.
C18_DynamicXPathSubstituted ==
    (last.op = "getDynamicXPath" /\ last.res.kind # "LoadError") =>
        IF last.path[1] \in DOMAIN XPatterns
        THEN /\ last.res.ok
             /\ last.res.locator =
                    SubstitutedFrom(XPatterns[last.path[1]], 1, last.params)
        ELSE /\ ~last.res.ok
             /\ last.res.kind = "XPathPatternNotFound"
             /\ last.res.path = <<last.path[1], last.file>>

\* parameters whose texts run into one another unless JSON.stringify escapes
KeyParams ==
    {<<>>,
     << <<<<"n">>, <<"v">>>> >>,
     << <<<<"n">>, <<"v">>>>, <<<<"m">>, <<"w">>>> >>,
     << <<<<"m">>, <<"w">>>>, <<<<"n">>, <<"v">>>> >>,
     << <<<<"n">>, <<"v", "\"", ",", "\"", "m", "\"", ":", "\"", "w">>>> >>,
     << <<<<"n">>, <<"\\">>>> >>,
     << <<<<"n">>, <<"-", "{", "}">>>> >>}

KeyPaths == {PByName, PById}

NextKeys ==
    \/ LoadRepository("patterns")
    \/ \E patternPath \in KeyPaths, parameters \in KeyParams :
           BuildLocator(patternPath, parameters)
    \/ \E enabled \in BOOLEAN : SetCacheEnabled(enabled)
    \/ ClearCache

SpecKeys == Init /\ [][NextKeys]_vars

\* the calls whose cache key is the key of a cache entry
CallsOfEntry(e) ==
    {call \in KeyPaths \X KeyParams : CacheKey(Str(call[1]), call[2]) = e[1]}

\* C17: a cache entry belongs to one pattern path and one record of
\* parameters; calls that differ in the path or in a parameter key or value
\* have different cache keys, so buildLocator answers from the cache only
\* for the path and the parameters of the call that stored the entry.
C17_ExactCacheKey ==
    /\ \A e \in cache : Cardinality(CallsOfEntry(e)) = 1
    /\ (last.op = "buildLocator" /\ last.res.description = "Retrieved from cache")
           => \A call \in KeyPaths \X KeyParams :
                  CacheKey(Str(call[1]), call[2])
                          = CacheKey(Str(last.path), last.params)
                      => call = <<last.path, last.params>>

\* a call answered from the cache while the cache holds the entry of
\* parameters whose value contains quotes
C17_Witness ==
    /\ last.op = "buildLocator"
    /\ last.res.description = "Retrieved from cache"
    /\ \E e \in cache : Contains(e[1], <<"\\", "\"">>)

(***************************************************************************)
(* Browser calls in flight                                                 *)
(*                                                                         *)
(* successfully_created_the_quote (QuotePage.ts lines 528-740) and the     *)
(* hooks that follow the step, one await at a time.  Each await issues its *)
(* calls and goes on when they have settled; Promise.all issues two calls  *)
(* and rejects as soon as one of them rejects, while the other stays in    *)
(* flight.  Which call settles first, and how, is the browser's choice.    *)
(***************************************************************************)
Awaited(target, op) == [target |-> target, op |-> op, awaited |-> TRUE]

\* the awaits of the method in the order of the text: the try block (lines
\* 542-544), its catch block (550-559), the approval tab (574-649), the quote
\* page and the sales agreement tab (662-733)
QuoteAwaits ==
    << {Awaited(thisPage, "click approval link")},
       {Awaited(thisPage, "waitForTimeout")},
       {Awaited(thisPage, "click error notification")},
       {Awaited(thisPage, "waitForTimeout")},
       {Awaited(thisPage, "click approval link")},
       {Awaited(Newest(tabs), "bringToFront")},
       {Awaited(Newest(tabs), "waitForLoadState")},
       {Awaited(thisPage, "click")},
       {Awaited(thisPage, "close")},
       {Awaited(thisPage, "click Quote_Details")},
       {Awaited(thisPage, "waitForTimeout")},
       {Awaited("context", "waitForEvent"), Awaited(thisPage, "click quote_number")},
       {Awaited("agreement", "bringToFront")},
       {Awaited("agreement", "waitForLoadState")},
       {Awaited(thisPage, "waitForTimeout")},
       {Awaited(thisPage, "click")},
       {Awaited(thisPage, "close")},
       {Awaited(thisPage, "waitForTimeout")} >>

\* the awaits of the try block, the first await of the catch block and the
\* first await after it
TryBlock == {1, 2}
CatchBlock == 3
AfterCatch == 6

\* AfterStep hook, part_009 lines 54-60
AfterStepAwaits == << {Awaited(fixturePage, "screenshot")} >>

\* After hook, part_009 lines 62-99
AfterAwaits ==
    (IF status = "PASSED" THEN << {Awaited(fixturePage, "screenshot")} >> ELSE <<>>)
        \o << {Awaited("context", "tracing.stop")},
              {Awaited(fixturePage, "close")},
              {Awaited("context", "close")} >>
        \o (IF status = "PASSED"
            THEN << {Awaited(fixturePage, "close")}, {Awaited("context", "close")} >>
            ELSE <<>>)

Awaits ==
    CASE phase = "steps"     -> QuoteAwaits
      [] phase = "afterStep" -> AfterStepAwaits
      [] phase = "after"     -> AfterAwaits
      [] OTHER               -> <<>>

Awaiting == \E p \in pending : p.awaited

\* what runs after the step, after AfterStep and after After
Following(ph) ==
    CASE ph = "steps"     -> "afterStep"
      [] ph = "afterStep" -> "after"
      [] OTHER            -> "done"

\* the code reaches its next await and issues the calls of it
Issue ==
    /\ phase \in {"steps", "afterStep", "after"}
    /\ ~Awaiting
    /\ pc <= Len(Awaits)
    /\ pending' = pending \cup Awaits[pc]
    /\ UNCHANGED <<managers, unreadable, constructed, action>>
    /\ UNCHANGED <<phase, pc, status, currentEnvironment, tabs, contextOpen,
                   tracing, teardown, thisPage, fixturePage, step>>

\* what the code does once the await of p has completed, the pages then open
\* being those of tabs'
Completed(p) ==
    LET switches == phase = "steps" /\ p.op = "waitForLoadState"
        closes   == phase = "steps" /\ p.op = "close"
        quotePageRef == FindQuoteWizard(tabs')
    IN  /\ contextOpen' = IF p = Awaited("context", "close") THEN FALSE
                          ELSE contextOpen
        /\ tracing' = IF p.op = "tracing.stop" THEN FALSE ELSE tracing
        /\ thisPage' = IF switches THEN p.target
                       ELSE IF closes /\ quotePageRef # "none" THEN quotePageRef
                       ELSE thisPage
        /\ fixturePage' = IF switches THEN p.target
                          ELSE IF closes /\ quotePageRef # "none" THEN quotePageRef
                          ELSE fixturePage
        /\ IF closes /\ quotePageRef = "none"
           THEN phase' = Following(phase) /\ pc' = 1 /\ status' = "FAILED"
           ELSE IF pc = Len(Awaits)
           THEN phase' = Following(phase) /\ pc' = 1 /\ UNCHANGED status
           ELSE /\ phase' = phase
                /\ pc' = IF phase = "steps" /\ pc \in TryBlock /\ pc + 1 \notin TryBlock
                         THEN AfterCatch ELSE pc + 1
                /\ UNCHANGED status

\* a call in flight resolves: a click on a link to a tab opens the tab,
\* whether or not the code still waits for the click, and the wait for the
\* 'page' event resolves once the tab is there
Resolve(p) ==
    /\ p \in pending
    /\ p.op = "close" \/ p.target \in tabs \/ (p.target = "context" /\ contextOpen)
    /\ p.op = "waitForEvent" => "agreement" \in tabs
    /\ pending' = pending \ {p}
    /\ tabs' = CASE p.op = "click approval link" -> tabs \cup {"approval"}
                 [] p.op = "click quote_number"  -> tabs \cup {"agreement"}
                 [] p = Awaited("context", "close") -> {}
                 [] p.op = "close" -> tabs \ {p.target}
                 [] OTHER -> tabs
    /\ IF p.awaited /\ ~\E q \in pending \ {p} : q.awaited
       THEN Completed(p)
       ELSE UNCHANGED <<phase, pc, status, contextOpen, tracing, thisPage,
                        fixturePage>>
    /\ UNCHANGED <<managers, unreadable, constructed, action>>
    /\ UNCHANGED <<currentEnvironment, teardown, step>>

\* a call in flight rejects (a timeout, a closed target): the await it belongs
\* to throws and what else that await issued stays in flight with nobody
\* waiting for it; the catch block takes what the try block throws, anything
\* else ends the step or the hook and the runner goes on to the next hook
Reject(p) ==
    /\ p \in pending
    /\ p.op # "close"
    /\ pending' = {[q EXCEPT !.awaited = q.awaited /\ ~p.awaited] : q \in pending \ {p}}
    /\ IF p.awaited /\ phase = "steps" /\ pc \in TryBlock
       THEN pc' = CatchBlock /\ UNCHANGED <<phase, status>>
       ELSE IF p.awaited
       THEN phase' = Following(phase) /\ pc' = 1 /\ status' = "FAILED"
       ELSE UNCHANGED <<phase, pc, status>>
    /\ UNCHANGED <<managers, unreadable, constructed, action>>
    /\ UNCHANGED <<currentEnvironment, tabs, contextOpen, tracing, teardown,
                   thisPage, fixturePage, step>>

\* the step at line 531, this.page synced with pageFixture.page, which
\* create_new_quote has left at the first page
InitInFlight ==
    /\ InitManagers
    /\ unreadable = {}
    /\ constructed = {"LoginPage"}
    /\ action = NoAction
    /\ phase = "steps"
    /\ pc = 1
    /\ status = "PASSED"
    /\ currentEnvironment = "GCI"
    /\ tabs = {"main", "quote"}
    /\ contextOpen = TRUE
    /\ tracing = TRUE
    /\ teardown = <<>>
    /\ thisPage = "main"
    /\ fixturePage = "main"
    /\ step = NoStep
    /\ pending = {}

NextInFlight ==
    \/ Issue
    \/ \E p \in pending : Resolve(p)
    \/ \E p \in pending : Reject(p)

SpecInFlight == InitInFlight /\ [][NextInFlight]_vars

\* C19: no two browser calls are in flight on the same page at the same
\* time, the wait for a new tab together with a click included.
C19_OneActionInFlight ==
    \A page \in {Opened[i] : i \in 1..Len(Opened)} :
        Cardinality({p \in pending : p.target = page}) <= 1

(***************************************************************************)
(* Several scenarios in one process: the pattern-based steps               *)
(*                                                                         *)
(* pattern-steps keeps its page object in the module-level variable        *)
(* patternBasedLoginPage (part_012 line 7); thisPage is the page of that   *)
(* object, "none" while the variable is undefined.                         *)
(***************************************************************************)
\* the pages the Before hooks of the scenarios of a run make, in order
ScenarioPages == <<"page1", "page2", "page3">>

MaxSteps == 2

\* the scenarios that have started
Started ==
    IF fixturePage = "none" THEN 0
    ELSE CHOOSE i \in 1..Len(ScenarioPages) : ScenarioPages[i] = fixturePage

BeforeScenario ==
    /\ Started < Len(ScenarioPages)
    /\ BeforeWith(ScenarioPages[Started + 1])

\* a step that has driven a page
Drove(name, page, failed) == [Reported(name, "", "", {}, failed) EXCEPT !.page = page]

CanPatternStep == phase = "steps" /\ status = "PASSED" /\ pc < MaxSteps

\* Given 'I initialize the pattern-based page', part_012 lines 13-16
InitializePatternPage ==
    LET thrown == FilePath("patterns") \in unreadable
    IN  /\ CanPatternStep
        /\ constructor("PatternBasedLoginPage")
        /\ thisPage' = IF thrown THEN thisPage ELSE fixturePage
        /\ StepDone(Drove("initialize", "none", thrown))
        /\ UNCHANGED <<phase, currentEnvironment, tabs, contextOpen, tracing,
                       teardown, fixturePage, pending>>

\* Given 'I am on the login page using patterns', part_012 lines 22-30: the
\* page object is made only when the variable is still undefined; goto on a
\* closed page rejects
OnLoginPageUsingPatterns(raises) ==
    LET makes  == thisPage = "none"
        thrown == makes /\ FilePath("patterns") \in unreadable
        driven == IF makes THEN fixturePage ELSE thisPage
    IN  /\ CanPatternStep
        /\ IF makes
           THEN constructor("PatternBasedLoginPage")
           ELSE UNCHANGED <<managers, unreadable, constructed, action>>
        /\ thisPage' = IF thrown THEN thisPage ELSE driven
        /\ StepDone(IF thrown THEN Drove("onLoginPage", "none", TRUE)
                    ELSE Drove("onLoginPage", driven, raises \/ driven \notin tabs))
        /\ UNCHANGED <<phase, currentEnvironment, tabs, contextOpen, tracing,
                       teardown, fixturePage, pending>>

\* When 'I enter username / enter password / click the login button using
\* template', part_012 lines 36-46: the page object acts on the page it holds;
\* an undefined patternBasedLoginPage is a TypeError; a wait on a closed page
\* rejects
TemplateStep(o, visible) ==
    \E r \in {buildFromTemplate(o[2], <<>>)} :
        LET seen == [i \in 1..DefaultRetries |-> visible /\ thisPage \in tabs]
            act  == PatternAct(o[1], o[2], r, seen)
        IN  /\ CanPatternStep
            /\ IF thisPage = "none"
               THEN /\ UNCHANGED <<managers, action>>
                    /\ StepDone(Drove(o[1], "none", TRUE))
               ELSE /\ Cardinality(r.cache) <= MaxCache
                    /\ cache' = r.cache
                    /\ last' = Call("buildFromTemplate", o[2], <<>>, "", r.res)
                    /\ action' = act
                    /\ UNCHANGED <<repository, repositoryPath, cacheEnabled,
                                   repositories>>
                    /\ StepDone(Drove(o[1], IF r.res.ok THEN thisPage ELSE "none",
                                      act.status = "failed"))
            /\ UNCHANGED <<unreadable, constructed, phase, currentEnvironment, tabs,
                           contextOpen, tracing, teardown, thisPage, fixturePage,
                           pending>>

NextSuite ==
    \/ BeforeScenario
    \/ InitializePatternPage
    \/ \E raises \in BOOLEAN : OnLoginPageUsingPatterns(raises)
    \/ \E o \in PatternOps, visible \in BOOLEAN : TemplateStep(o, visible)
    \/ After

SpecSuite == Init /\ [][NextSuite]_vars

\* C21: every step of a scenario drives the page the Before hook made for
\* that scenario, never the page of an earlier scenario.
C21_OwnScenarioPage ==
    (phase = "steps" /\ step.page # "none") => step.page = fixturePage

(***************************************************************************)
(* C22  Disabled cache is empty.  While caching is disabled the cache       *)
(* holds no entries, and a build neither returns a cached locator nor       *)
(* changes the cache; clearCache and setCacheEnabled leave the loaded       *)
(* repository as it is.                                                     *)
(***************************************************************************)
C22_DisabledCacheEmpty ==
    /\ [](~cacheEnabled => cache = {})
    /\ [][/\ ~cacheEnabled =>
               /\ cache' = cache
               /\ last' # last => last'.res.description # "Retrieved from cache"
          /\ (ClearCache \/ \E enabled \in BOOLEAN : SetCacheEnabled(enabled))
                 => /\ repository' = repository
                    /\ repositoryPath' = repositoryPath]_vars

\* a locator was built from its pattern and nothing is cached for it
C22_Witness ==
    /\ ~cacheEnabled
    /\ cache = {}
    /\ repository # Null
    /\ last.op = "buildLocator"
    /\ last.res.ok
    /\ last.res.description = "Generated from pattern"

(***************************************************************************)
(* replaceParameters as a function of the pattern and the parameter map    *)
(*                                                                         *)
(* A parameter map is the sequence of its entries in the order of           *)
(* Object.entries.                                                          *)
(***************************************************************************)
MaxParams == 2

SubstKeys == {<<"n">>, <<"m">>, <<"k">>}

\* plain text and text that names another key
SubstValues == {<<"v">>, <<"{", "m", "}">>, <<"{", "n", "}">>}

SubstPatterns ==
    {<<"/", "{", "n", "}">>,
     <<"{", "n", "}", "{", "m", "}">>,
     <<"{", "m", "}", "/", "{", "k", "}", "/", "{", "n", "}">>}

\* the maps of at most MaxParams entries, no key twice
SubstParams ==
    UNION {{q \in [1..len -> SubstKeys \X SubstValues] :
                \A i, j \in 1..len : q[i][1] = q[j][1] => i = j} : len \in 0..MaxParams}

\* the same entries in every order of iteration
Orders(parameters) ==
    {q \in [1..Len(parameters) -> {parameters[i] : i \in 1..Len(parameters)}] :
         \A i \in 1..Len(parameters) : \E j \in 1..Len(parameters) : q[j] = parameters[i]}

\* a call of replaceParameters, lines 481-496 and 707-716
ReplaceParameters(pattern, parameters) ==
    /\ last' = Call("replaceParameters", pattern, parameters, "",
                    Built(replaceParameters(pattern, parameters), pattern, parameters,
                          FALSE, "", 0))
    /\ UNCHANGED <<repository, repositoryPath, cache, cacheEnabled, repositories>>
    /\ UNCHANGED world

NextSubst ==
    \E pattern \in SubstPatterns, parameters \in SubstParams :
        ReplaceParameters(pattern, parameters)

SpecSubst == Init /\ [][NextSubst]_vars

\* C23: the locator replaceParameters produces for a pattern and a parameter
\* map is the same for every order in which the keys of the map are iterated.
C23_OrderIndependent ==
    last.op = "replaceParameters"
    => \A q \in Orders(last.params) :
           replaceParameters(last.path, q) = last.res.locator

(***************************************************************************)
(* validateRepository                                                      *)
(***************************************************************************)
\* the paths category.name of Object.entries(templates) and of the entries
\* of each category, lines 303-304
TemplatesOf(id) ==
    LET templates == Prop(Content(id), "templates")
    IN  UNION {{<<category, name>> : name \in DOMAIN templates.kids[category].kids} :
                   category \in DOMAIN templates.kids}

\* the try block of lines 305-310 throws for the template
InvalidTemplate(template) ==
    \/ ~getPattern(Prop(template, "pattern")).ok
    \/ /\ ~Falsy(Prop(template, "fallback"))
       /\ ~getPattern(Prop(Prop(template, "fallback"), "pattern")).ok

Validated(errors, warnings) ==
    [ok |-> TRUE, isValid |-> errors = {}, errors |-> errors, warnings |-> warnings,
     kind |-> ""]

\* validateRepository, lines 265-318; reading requiredPatterns of a
\* repository without the member validation is a TypeError
validateRepository ==
    IF repository = Null
    THEN [Validated({<<"Repository not loaded">>}, {}) EXCEPT !.isValid = FALSE]
    ELSE IF ~HasValidation(repository)
    THEN [ok |-> FALSE, isValid |-> FALSE, errors |-> {}, warnings |-> {},
          kind |-> "TypeError"]
    ELSE
    LET patterns == Prop(Content(repository), "patterns")
        missing  == {<<"category", <<requiredCategory>>>> :
                        requiredCategory \in
                            {c \in requiredPatterns(repository) : Falsy(Prop(patterns, c))}}
        invalid  == {<<"template", path>> :
                        path \in {q \in TemplatesOf(repository) :
                                      InvalidTemplate(TemplateAt(q))}}
        warnings == {<<"group", pattern>> :
                        pattern \in {q \in patternGroups(repository) :
                                         ~getPattern(Str(q)).ok}}
    IN  Validated(missing \cup invalid, warnings)

\* a call of validateRepository
ValidateRepository ==
    /\ last' = Call("validateRepository", <<>>, <<>>, "", validateRepository)
    /\ UNCHANGED <<repository, repositoryPath, cache, cacheEnabled, repositories>>
    /\ UNCHANGED world

ValidateFiles == {"login", "menus", "patterns", "missing"}

ValidateTemplatePaths ==
    {<<"page", "user">>, <<"page", "pass">>, <<"page", "menu">>, <<"page", "item">>}

NextValidate ==
    \/ \E fileName \in ValidateFiles : LoadRepository(fileName)
    \/ ValidateRepository
    \/ \E templatePath \in ValidateTemplatePaths, runtimeParameters \in RuntimeParams :
           BuildFromTemplate(templatePath, runtimeParameters)
    \/ ClearCache

SpecValidate == Init /\ [][NextValidate]_vars

\* C24: when validateRepository returns isValid = true, buildFromTemplate
\* returns normally with fallbackUsed = false for every template path of the
\* repository and any runtime parameters; and isValid is true exactly when
\* the list of errors is empty.
C24_ValidationImpliesResolvable ==
    (last.op = "validateRepository" /\ last.res.ok)
    => /\ last.res.isValid <=> last.res.errors = {}
       /\ last.res.isValid
          => \A templatePath \in TemplatesOf(repository),
                runtimeParameters \in RuntimeParams :
                 \E r \in {buildFromTemplate(templatePath, runtimeParameters)} :
                     r.res.ok /\ ~r.res.fallbackUsed

(***************************************************************************)
(* The lookups by dotted path                                              *)
(***************************************************************************)
\* the walk of getStaticElement, lines 198-213; staticElements of a file
\* without the member is undefined and current[part] a TypeError
getStaticElement(elementPath) ==
    IF repository = Null THEN Throw("NotLoaded", <<>>)
    ELSE IF Prop(Content(repository), "staticElements").t = "undef"
    THEN Throw("TypeError", <<>>)
    ELSE LET current == Walk(Prop(Content(repository), "staticElements"), elementPath)
         IN  IF Falsy(current) THEN Throw("StaticElementNotFound", elementPath)
             ELSE Return(current)

Lookups == {"getPattern", "getTemplate", "getStaticElement"}

LookupPaths(op) ==
    CASE op = "getPattern" ->
             {PByName, PById, PByText, <<"basic">>, <<"basic", "byName", "length">>}
      [] op = "getTemplate" ->
             {<<"page", "user">>, <<"page">>, <<"page", "user", "fallback">>,
              <<"page", "user", "pattern">>, <<"page", "none">>}
      [] op = "getStaticElement" ->
             {<<"login", "logo">>, <<"login">>, <<"login", "logo", "length">>,
              <<"login", "none">>}

\* a call of one of the lookups
Lookup(op, path) ==
    /\ last' = Call(op, path, <<>>, "",
                    CASE op = "getPattern"       -> getPattern(Str(path))
                      [] op = "getTemplate"      -> getTemplate(path)
                      [] op = "getStaticElement" -> getStaticElement(path))
    /\ UNCHANGED <<repository, repositoryPath, cache, cacheEnabled, repositories>>
    /\ UNCHANGED world

LookupFiles == {"login", "menus", "missing"}

\* getPattern and getTemplate are private: outside the class they are reached
\* through buildLocator and buildFromTemplate
NextLookup ==
    \/ \E fileName \in LookupFiles : LoadRepository(fileName)
    \/ \E op \in Lookups : \E path \in LookupPaths(op) : Lookup(op, path)
    \/ \E patternPath \in PatternPaths, parameters \in DirectParams :
           BuildLocator(patternPath, parameters)
    \/ ClearCache

SpecLookup == Init /\ [][NextLookup]_vars

\* the value is an entry of the kind the lookup is for
IsLeaf(op, path, val) ==
    IF op = "getTemplate" THEN path \in TemplatesOf(repository)
    ELSE val.t = "str"

NotFound(op) ==
    CASE op = "getPattern"       -> "PatternNotFound"
      [] op = "getTemplate"      -> "TemplateNotFound"
      [] op = "getStaticElement" -> "StaticElementNotFound"

\* C25: a lookup returns the entry stored at exactly the given path, a
\* pattern string or a template definition, or raises a not-found error that
\* names the path; it never yields a namespace or a value past a leaf.
C25_LeavesOnly ==
    last.op \in Lookups
    => IF last.res.ok
       THEN IsLeaf(last.op, last.path, last.res.val)
       ELSE \/ last.res.kind = NotFound(last.op) /\ last.res.path = last.path
            \/ last.res.kind = "NotLoaded" /\ repository = Null

(***************************************************************************)
(* buildMultipleLocators and the loads that fail                           *)
(***************************************************************************)
MaxSets == 2

\* parameterSets.map(...), lines 229-239: one buildLocator per set, in order,
\* each on the cache the one before left; the first that throws ends the map
RECURSIVE buildMultipleFrom(_, _, _, _)
buildMultipleFrom(c, patternPath, parameterSets, index) ==
    IF index > Len(parameterSets)
    THEN [ok |-> TRUE, results |-> <<>>, kind |-> "", set |-> 0, cache |-> c]
    ELSE LET r == buildLocator(c, patternPath, parameterSets[index])
         IN  IF ~r.res.ok
             THEN [ok |-> FALSE, results |-> <<>>, kind |-> r.res.kind, set |-> index,
                   cache |-> r.cache]
             ELSE LET rest == buildMultipleFrom(r.cache, patternPath, parameterSets,
                                                index + 1)
                  IN  IF rest.ok
                      THEN [rest EXCEPT
                               !.results = <<[res |-> r.res, set |-> index]>> \o @]
                      ELSE rest

\* buildMultipleLocators, lines 225-240
buildMultipleLocators(patternPath, parameterSets) ==
    buildMultipleFrom(cache, patternPath, parameterSets, 1)

ParameterSets ==
    UNION {[1..len -> {<<>>, << <<<<"n">>, <<"v">>>> >>}] : len \in 0..MaxSets}

\* a call of buildMultipleLocators
BuildMultipleLocators(patternPath, parameterSets) ==
    \E r \in {buildMultipleLocators(Str(patternPath), parameterSets)} :
        /\ Cardinality(r.cache) <= MaxCache
        /\ cache' = r.cache
        /\ last' = Call("buildMultipleLocators", patternPath, parameterSets, "",
                        [ok |-> r.ok, results |-> r.results, kind |-> r.kind,
                         set |-> r.set])
        /\ UNCHANGED <<repository, repositoryPath, cacheEnabled, repositories>>
        /\ UNCHANGED world

\* the operations that build locators
BuildOps == {"buildLocator", "buildFromTemplate", "buildMultipleLocators"}

NextLoad ==
    \/ \E fileName \in FileNames : LoadRepository(fileName)
    \/ \E fileName \in XFileNames : XLoadRepository(fileName)
    \/ \E patternPath \in KeyPaths, parameters \in DirectParams :
           BuildLocator(patternPath, parameters)
    \/ \E runtimeParameters \in RuntimeParams :
           BuildFromTemplate(usernameField, runtimeParameters)
    \/ \E patternPath \in KeyPaths, parameterSets \in ParameterSets :
           BuildMultipleLocators(patternPath, parameterSets)
    \/ \E enabled \in BOOLEAN : SetCacheEnabled(enabled)

SpecLoad == Init /\ [][NextLoad]_vars

\* a loadRepository that raises leaves both managers as they were
FailedLoadChangesNothing ==
    /\ \A fileName \in FileNames :
           (LoadRepository(fileName) /\ ~last'.res.ok)
           => /\ repository' = repository
              /\ repositoryPath' = repositoryPath
              /\ cache' = cache
              /\ cacheEnabled' = cacheEnabled
    /\ \A fileName \in XFileNames :
           (XLoadRepository(fileName) /\ ~last'.res.ok)
           => repositories' = repositories

\* C26 as stated: a failed load changes nothing, and every build operation
\* invoked while no repository has been loaded raises a not-loaded error.
C26_EveryBuildNotLoaded ==
    /\ [][FailedLoadChangesNothing]_vars
    /\ []((last.op \in BuildOps /\ repository = Null)
          => (~last.res.ok /\ last.res.kind = "NotLoaded"))

\* C26: a failed load changes nothing, and every build operation that has a
\* locator to build raises a not-loaded error while no repository has been
\* loaded; buildMultipleLocators with no parameter set returns the empty list.
C26_FailedLoadChangesNothing ==
    /\ [][FailedLoadChangesNothing]_vars
    /\ []((last.op \in BuildOps /\ repository = Null)
          => IF last.op = "buildMultipleLocators" /\ last.params = <<>>
             THEN last.res.ok /\ last.res.results = <<>>
             ELSE ~last.res.ok /\ last.res.kind = "NotLoaded")

\* a load has failed on a manager that holds a repository and a cached locator
C26_Witness ==
    /\ last.op = "loadRepository"
    /\ ~last.res.ok
    /\ repository # Null
    /\ cache # {}

(***************************************************************************)
(* CommonFunctions.safeClick, await by await                               *)
(*                                                                         *)
(* action holds the call: at is the await the call is at, or "returned" or *)
(* "thrown"; tried lists the awaits that rejected.                         *)
(***************************************************************************)
MaxRetries == 3

\* for (...; attempt <= retries; ...), line 56: the body is entered or the
\* loop is left and the method returns
Loop(call, attempt) ==
    [call EXCEPT !.attempt = attempt,
                 !.at = IF attempt <= call.retries THEN "waitFor" ELSE "returned"]

\* the locators of the login button
ClickLocators == {XElements.loginButton.xpath, XElements.loginButton.alternateXpath}

\* safeClick(locator, retries) is called
SafeClick(locator, retries) ==
    /\ action = NoAction \/ (action.class = "CommonFunctions"
                             /\ action.at \in {"returned", "thrown"})
    /\ action' = Loop([class |-> "CommonFunctions", op |-> "safeClick",
                       resolved |-> TRUE, hasFallback |-> FALSE, tried |-> <<>>,
                       status |-> "", error |-> "", retries |-> retries,
                       locator |-> locator, attempt |-> 1, at |-> "", clicks |-> 0,
                       pauses |-> 0], 1)
    /\ UNCHANGED <<managers, unreadable, constructed, run>>

\* the catch block, lines 61-66, entered from the await that rejected
Catch(call, await) ==
    LET failed == [call EXCEPT !.tried = Append(@, await)]
    IN  IF call.attempt = call.retries
        THEN [failed EXCEPT !.at = "thrown", !.status = "failed", !.error = "Failed"]
        ELSE [failed EXCEPT !.at = "waitForTimeout"]

\* waitFor({ state: 'visible' }) settles, line 58
WaitFor(visible) ==
    /\ action.class = "CommonFunctions" /\ action.at = "waitFor"
    /\ action' = IF visible THEN [action EXCEPT !.at = "click"]
                 ELSE Catch(action, "waitFor")
    /\ UNCHANGED <<managers, unreadable, constructed, run>>

\* click() settles, lines 59-60
Click(clicked) ==
    /\ action.class = "CommonFunctions" /\ action.at = "click"
    /\ action' = IF clicked
                 THEN [action EXCEPT !.clicks = @ + 1, !.at = "returned",
                                     !.status = "done"]
                 ELSE Catch(action, "click")
    /\ UNCHANGED <<managers, unreadable, constructed, run>>

\* waitForTimeout(1000) is over, line 65, and the loop goes on
WaitForTimeout ==
    /\ action.class = "CommonFunctions" /\ action.at = "waitForTimeout"
    /\ action' = Loop([action EXCEPT !.pauses = @ + 1], action.attempt + 1)
    /\ UNCHANGED <<managers, unreadable, constructed, run>>

NextClick ==
    \/ \E locator \in ClickLocators, retries \in 0..MaxRetries :
           SafeClick(locator, retries)
    \/ \E visible \in BOOLEAN : WaitFor(visible)
    \/ \E clicked \in BOOLEAN : Click(clicked)
    \/ WaitForTimeout

SpecClick == Init /\ [][NextClick]_vars

\* C27: for every value of retries safeClick either returns after exactly
\* one successful click, made in at most retries attempts with a pause after
\* each failed one, or throws after exactly retries failed attempts; it
\* never returns without having clicked.
C27_ReturnsOnlyAfterClick ==
    action.class = "CommonFunctions"
    => /\ action.at = "returned"
          => /\ action.clicks = 1
             /\ Len(action.tried) < action.retries
             /\ action.pauses = Len(action.tried)
       /\ action.at = "thrown"
          => /\ action.clicks = 0
             /\ Len(action.tried) = action.retries

(***************************************************************************)
(* PatternBasedLoginPage.verifyElementsExist                               *)
(***************************************************************************)
\* an element check { pattern, params }
Checks ==
    [pattern : KeyPaths,
     params  : {<< <<<<"n">>, <<"v">>>> >>, << <<<<"n">>, <<"w">>>> >>}]

ElementChecks == UNION {[1..len -> Checks] : len \in 0..MaxSets}

\* the waits of the loop of lines 246-257 from the i-th result on: the loop
\* ends at the first wait that times out
RECURSIVE WaitsFrom(_, _, _)
WaitsFrom(results, i, seen) ==
    IF i > Len(results) THEN <<>>
    ELSE <<Attempt("primary", results[i].res.locator, ~seen[i])>>
             \o (IF seen[i] THEN WaitsFrom(results, i + 1, seen) ELSE <<>>)

\* verifyElementsExist, lines 238-258; elementChecks[0].pattern of an empty
\* list is a TypeError
verifyElementsExist(elementChecks, r, seen) ==
    LET op    == "verifyElementsExist"
        tried == WaitsFrom(r.results, 1, seen)
    IN  IF elementChecks = <<>>
        THEN Raised("PatternBasedLoginPage", op, FALSE, FALSE, <<>>, "TypeError")
        ELSE IF ~r.ok
        THEN Raised("PatternBasedLoginPage", op, TRUE, FALSE, <<>>, r.kind)
        ELSE IF \E i \in 1..Len(tried) : tried[i].timedOut
        THEN Raised("PatternBasedLoginPage", op, TRUE, FALSE, tried, "Failed")
        ELSE Acted("PatternBasedLoginPage", op, TRUE, FALSE, tried)

\* a call of verifyElementsExist on a constructed page object
VerifyElementsExist(elementChecks, seen) ==
    /\ "PatternBasedLoginPage" \in constructed
    /\ IF elementChecks = <<>>
       THEN /\ action' = [checks |-> elementChecks]
                           @@ verifyElementsExist(elementChecks, [ok |-> FALSE], seen)
            /\ UNCHANGED <<cache, last>>
       ELSE \E r \in {buildMultipleLocators(
                          Str(elementChecks[1].pattern),
                          [i \in 1..Len(elementChecks) |-> elementChecks[i].params])} :
                /\ cache' = r.cache
                /\ last' = Call("buildMultipleLocators", elementChecks[1].pattern,
                                [i \in 1..Len(elementChecks) |-> elementChecks[i].params],
                                "", [ok |-> r.ok, results |-> r.results,
                                     kind |-> r.kind, set |-> r.set])
                /\ action' = [checks |-> elementChecks]
                               @@ verifyElementsExist(elementChecks, r, seen)
    /\ UNCHANGED <<repository, repositoryPath, cacheEnabled, repositories>>
    /\ UNCHANGED <<unreadable, constructed, run>>

NextVerify ==
    \/ Construct("PatternBasedLoginPage")
    \/ \E elementChecks \in ElementChecks :
           \E seen \in [1..Len(elementChecks) -> BOOLEAN] :
               VerifyElementsExist(elementChecks, seen)
    \/ ClearCache

SpecVerify == InitPages /\ [][NextVerify]_vars

\* C28: the i-th locator verifyElementsExist waits on is the one built from
\* the i-th check's pattern and the i-th check's params, and when all are
\* verified their number is the number of checks.
C28_EachCheckOwnPattern ==
    (action.op = "verifyElementsExist" /\ action.resolved)
    => /\ action.status = "done" => Len(action.tried) = Len(action.checks)
       /\ \A i \in 1..Len(action.tried) :
              action.tried[i].locator
                  = replaceParameters(PatternIn(repository, action.checks[i].pattern).s,
                                      action.checks[i].params)
====
